---- MODULE Spec2Model ----
(***************************************************************************)
(* Model of the engine.io client: the long-polling transport               *)
(* (transports/polling.rs), the connection that owns it (connection.rs),   *)
(* the WebSocket transport with its probe (transports/websocket.rs) and    *)
(* the upgrade coordinator that joins the two.                             *)
(***************************************************************************)
EXTENDS Integers, Sequences, FiniteSets, TLC

\* ------------------------------------------------------------------------
\* Bounds of the model
\* ------------------------------------------------------------------------
\* number of calls the user makes on one transport
MaxCalls == 2
\* number of packets in one send() list
MaxBatch == 2
\* number of polling GETs the server answers with data
MaxPolls == 1
\* cfg.ping_timeout(), in clock ticks (dictated by the server)
PingTimeout == 2
\* longest time, in clock ticks, one GET attempt takes to time out
MaxStep == 2
\* number of WebSocket frames the server sends
MaxFrames == 2
\* number of packets the server queues for the polling transport of a unified
\* connection
MaxQueued == 1
\* number of calls the user makes on the unified sender
MaxUnifiedCalls == 1
\* calls made on the handle by a program that pauses and starts the transport
MaxPausedCalls == 4
\* connect calls made on one Client
MaxConnects == 2
\* characters of the text of a String payload
MaxText == 1
\* octets of a Binary payload
MaxData == 3
\* packets written into one buffer
MaxList == 2
MaxEvents == 3

\* ------------------------------------------------------------------------
\* Program constants
\* ------------------------------------------------------------------------
\* ThreadPool::new_with_name("Engine.io worker thread", 4)
PoolSize == 4

\* ------------------------------------------------------------------------
\* Packets (packet.rs)
\* ------------------------------------------------------------------------
OpCode == {"Open", "Close", "Ping", "Pong", "Message", "Upgrade", "Noop"}

\* Payload::String(text): text is a sequence of Unicode scalar values
String(text) == [kind |-> "String", data |-> text]

\* Payload::Binary(bytes): bytes is a sequence of octets
Binary(bytes) == [kind |-> "Binary", data |-> bytes]

\* Packet::new
Packet(opcode, payload) == [opcode |-> opcode, payload |-> payload]

\* Packet::with_str
with_str(opcode, text) == Packet(opcode, String(text))

\* Packet::empty
empty(opcode) == with_str(opcode, <<>>)

\* Result<Packet, Error> of the decoders
Ok(packet) == [ok |-> TRUE, packet |-> packet, kind |-> "none"]

Err(kind) == [ok |-> FALSE, packet |-> empty("Noop"), kind |-> kind]

\* the opcode as u8
OpCodeValue(opcode) ==
    CASE opcode = "Open" -> 0 [] opcode = "Close" -> 1 [] opcode = "Ping" -> 2
      [] opcode = "Pong" -> 3 [] opcode = "Message" -> 4 [] opcode = "Upgrade" -> 5
      [] opcode = "Noop" -> 6

\* a table of opcodes that has one entry too many
from_u8_through_7(value) ==
    IF value \in 0..7
    THEN [ok |-> TRUE, opcode |-> CHOOSE o \in OpCode : OpCodeValue(o) = value % 7]
    ELSE [ok |-> FALSE, opcode |-> "Noop"]

\* OpCode::from_u8
from_u8(value) ==
    IF value \in 0..6
    THEN [ok |-> TRUE, opcode |-> CHOOSE o \in OpCode : OpCodeValue(o) = value]
    ELSE [ok |-> FALSE, opcode |-> "Noop"]

\* OpCode::from_char: value.to_digit(10), then from_u8
from_char(value) ==
    IF value \in 48..57 THEN from_u8(value - 48) ELSE [ok |-> FALSE, opcode |-> "Noop"]

\* OpCode::from_str: the empty string is UnexpectedEof; value.parse::<u8>()
\* takes decimal digits after an optional '+' and fails above 255; then from_u8
OpCode_from_str(value) ==
    LET digits == IF value # <<>> /\ value[1] = 43 THEN Tail(value) ELSE value
        u8[i \in 0..Len(digits)] ==
            IF i = 0 THEN 0
            ELSE IF u8[i - 1] > 255 THEN 256 ELSE (10 * u8[i - 1]) + (digits[i] - 48)
        from(res) == [ok |-> res.ok, opcode |-> res.opcode,
                      kind |-> IF res.ok THEN "none" ELSE "InvalidData"]
    IN  IF value = <<>> THEN [ok |-> FALSE, opcode |-> "Noop", kind |-> "UnexpectedEof"]
        ELSE IF digits = <<>> \/ (\E i \in 1..Len(digits) : digits[i] \notin 48..57)
                  \/ u8[Len(digits)] > 255
        THEN [ok |-> FALSE, opcode |-> "Noop", kind |-> "InvalidData"]
        ELSE from(from_u8(u8[Len(digits)]))

\* the opcode written as the character whose code it is, not as its digit
string_repr_as_u8(opcode) == <<OpCodeValue(opcode)>>

\* OpCode::string_repr: the decimal digit of the opcode
string_repr(opcode) == <<48 + OpCodeValue(opcode)>>

\* the standard base64 alphabet (base64::STANDARD), by index 0..63
Base64Char(i) ==
    IF i < 26 THEN 65 + i
    ELSE IF i < 52 THEN 97 + (i - 26)
    ELSE IF i < 62 THEN 48 + (i - 52)
    ELSE IF i = 62 THEN 43 ELSE 47

\* data.to_base64(base64::STANDARD): padded, no line breaks
RECURSIVE to_base64(_)
to_base64(data) ==
    IF Len(data) = 0 THEN <<>>
    ELSE IF Len(data) = 1 THEN
        <<Base64Char(data[1] \div 4), Base64Char((data[1] % 4) * 16), 61, 61>>
    ELSE IF Len(data) = 2 THEN
        <<Base64Char(data[1] \div 4),
          Base64Char(((data[1] % 4) * 16) + (data[2] \div 16)),
          Base64Char((data[2] % 16) * 4), 61>>
    ELSE
        <<Base64Char(data[1] \div 4),
          Base64Char(((data[1] % 4) * 16) + (data[2] \div 16)),
          Base64Char(((data[2] % 16) * 4) + (data[3] \div 64)),
          Base64Char(data[3] % 64)>> \o to_base64(SubSeq(data, 4, Len(data)))

\* the decoding table of from_base64: 0..63 for a character of the standard or
\* of the URL-safe alphabet, -1 for a line break, -2 for '=', -3 for any other
Base64Code(byte) ==
    IF byte \in 65..90 THEN byte - 65
    ELSE IF byte \in 97..122 THEN byte - 71
    ELSE IF byte \in 48..57 THEN byte + 4
    ELSE IF byte \in {43, 45} THEN 62
    ELSE IF byte \in {47, 95} THEN 63
    ELSE IF byte \in {10, 13} THEN -1
    ELSE IF byte = 61 THEN -2
    ELSE -3

BytesOk(bytes) == [ok |-> TRUE, data |-> bytes]

BytesErr == [ok |-> FALSE, data |-> <<>>]

\* from_base64, after the first '=': only '=' and line breaks may follow, and
\* the characters read so far must not stop one into a group of four.
\* acc is the u32 buf of the code without its six low bits, which are zero, and
\* cut to the 24 bits above them, the only ones that are read
RECURSIVE from_base64_tail(_, _, _, _, _)
from_base64_tail(s, i, acc, modulus, r) ==
    IF i <= Len(s)
    THEN IF s[i] \in {61, 13, 10} THEN from_base64_tail(s, i + 1, acc, modulus, r)
         ELSE BytesErr
    ELSE CASE modulus = 2 -> BytesOk(Append(r, (acc \div 16) % 256))
           [] modulus = 3 -> BytesOk(r \o <<(acc \div 1024) % 256, (acc \div 4) % 256>>)
           [] modulus = 0 -> BytesOk(r)
           [] OTHER -> BytesErr

\* from_base64, the main loop: buf = (buf | code) << 6 for every character, and
\* three bytes are pushed after every fourth
RECURSIVE from_base64_loop(_, _, _, _, _)
from_base64_loop(s, i, acc, modulus, r) ==
    IF i > Len(s) THEN from_base64_tail(s, i, acc, modulus, r)
    ELSE LET code == Base64Code(s[i])
         IN  CASE code = -1 -> from_base64_loop(s, i + 1, acc, modulus, r)
               [] code = -2 -> from_base64_tail(s, i + 1, acc, modulus, r)
               [] code = -3 -> BytesErr
               [] OTHER ->
                    LET b == ((acc % 262144) * 64) + code
                    IN  IF modulus = 3
                        THEN from_base64_loop(s, i + 1, b, 0,
                                 r \o <<(b \div 65536) % 256, (b \div 256) % 256, b % 256>>)
                        ELSE from_base64_loop(s, i + 1, b, modulus + 1, r)

\* buf[2..].from_base64()
from_base64(s) == from_base64_loop(s, 1, 0, 0, <<>>)

\* a continuation byte of UTF-8
IsCont(b) == b \in 128..191

\* str::from_utf8: the scalar values of a byte sequence, or an error
RECURSIVE from_utf8(_)
from_utf8(bytes) ==
    IF bytes = <<>> THEN BytesOk(<<>>)
    ELSE
      LET b1 == bytes[1]
          n  == Len(bytes)
          need == IF b1 < 128 THEN 1
                  ELSE IF b1 \in 194..223 THEN 2
                  ELSE IF b1 \in 224..239 THEN 3
                  ELSE IF b1 \in 240..244 THEN 4 ELSE 0
          wellformed ==
              /\ need > 0 /\ n >= need
              /\ \A k \in 2..need : IsCont(bytes[k])
              /\ (b1 = 224 => bytes[2] >= 160)
              /\ (b1 = 237 => bytes[2] <= 159)
              /\ (b1 = 240 => bytes[2] >= 144)
              /\ (b1 = 244 => bytes[2] <= 143)
          scalar ==
              CASE need = 1 -> b1
                [] need = 2 -> (b1 - 192) * 64 + (bytes[2] - 128)
                [] need = 3 -> (b1 - 224) * 4096 + (bytes[2] - 128) * 64 + (bytes[3] - 128)
                [] OTHER -> (b1 - 240) * 262144 + (bytes[2] - 128) * 4096
                             + (bytes[3] - 128) * 64 + (bytes[4] - 128)
      IN  IF ~wellformed THEN BytesErr
          ELSE LET rest == from_utf8(SubSeq(bytes, need + 1, n))
               IN  IF rest.ok THEN BytesOk(<<scalar>> \o rest.data) ELSE BytesErr

\* the UTF-8 encoding of one scalar value
Utf8Char(c) ==
    IF c < 128 THEN <<c>>
    ELSE IF c < 2048 THEN <<192 + (c \div 64), 128 + (c % 64)>>
    ELSE IF c < 65536 THEN
        <<224 + (c \div 4096), 128 + ((c \div 64) % 64), 128 + (c % 64)>>
    ELSE <<240 + (c \div 262144), 128 + ((c \div 4096) % 64), 128 + ((c \div 64) % 64),
           128 + (c % 64)>>

\* str::as_bytes
RECURSIVE as_bytes(_)
as_bytes(text) ==
    IF text = <<>> THEN <<>> ELSE Utf8Char(Head(text)) \o as_bytes(Tail(text))

\* impl FromStr for Packet: Packet::from_str
from_str(buf) ==
    IF buf = <<>> THEN Err("UnexpectedEof")
    ELSE IF buf[1] = 98 THEN
        IF Len(buf) < 2 THEN Err("UnexpectedEof")
        ELSE LET opcode == from_char(buf[2])
                 b64    == from_base64(as_bytes(SubSeq(buf, 3, Len(buf))))
             IN  IF ~opcode.ok THEN Err("InvalidData")
                 ELSE IF ~b64.ok THEN Err("InvalidData")
                 ELSE Ok(Packet(opcode.opcode, Binary(b64.data)))
    ELSE IF buf[1] \in 48..54 THEN
        LET opcode == from_char(buf[1])
        IN  IF ~opcode.ok THEN Err("InvalidData")
            ELSE Ok(with_str(opcode.opcode, Tail(buf)))
    ELSE Err("InvalidData")

\* Packet::from_reader: read_to_string, then from_str
from_reader(bytes) ==
    LET buf == from_utf8(bytes)
    IN  IF buf.ok THEN from_str(buf.data) ELSE Err("InvalidData")

\* write_packet!: the text of a packet (Display, Packet::write_to)
to_string(p) ==
    IF p.payload.kind = "Binary"
    THEN <<98>> \o string_repr(p.opcode) \o to_base64(p.payload.data)
    ELSE string_repr(p.opcode) \o p.payload.data

\* Payload::as_str: the text of the payload, if it is one
as_str(payload) ==
    IF payload.kind = "Binary"
    THEN LET text == from_utf8(payload.data)
         IN  IF text.ok THEN [some |-> TRUE, text |-> text.data]
             ELSE [some |-> FALSE, text |-> <<>>]
    ELSE [some |-> TRUE, text |-> payload.data]

\* a length of binary packets that is not rounded up to whole groups of four
compute_length_unpadded(p, as_chars) ==
    IF p.payload.kind = "Binary"
    THEN ((4 * Len(p.payload.data)) \div 3) + 2
    ELSE (IF as_chars THEN Len(p.payload.data) ELSE Len(as_bytes(p.payload.data))) + 1

\* a length that counts the bytes of the text whatever the mode
compute_length_in_bytes(p, as_chars) ==
    IF p.payload.kind = "Binary"
    THEN LET x == ((4 * Len(p.payload.data)) \div 3) + 3
         IN  (x - (x % 4)) + 2
    ELSE Len(as_bytes(p.payload.data)) + 1

\* Packet::compute_length: the length of the text of a packet, in characters
\* or in bytes
compute_length(p, as_chars) ==
    IF p.payload.kind = "Binary"
    THEN LET x == ((4 * Len(p.payload.data)) \div 3) + 3
         IN  (x - (x % 4)) + 2
    ELSE (IF as_chars THEN Len(p.payload.data) ELSE Len(as_bytes(p.payload.data))) + 1

\* Packet::compute_payload_length: len + (len as f32).log10().ceil() + 1, where
\* the ceiling of the logarithm is the least k with 10^k >= len
compute_payload_length(p, as_chars) ==
    LET len == compute_length(p, as_chars)
        log10_ceil == IF len <= 1 THEN 0 ELSE IF len <= 10 THEN 1
                      ELSE IF len <= 100 THEN 2 ELSE 3
    IN  len + log10_ceil + 1

\* Packet::write_payload_to: the bytes of "{}:" with compute_length(true), then
\* those of write_to
write_payload_to(p) ==
    LET length == compute_length(p, TRUE)
        decimal[k \in 0..length] ==
            IF k < 10 THEN <<48 + k>> ELSE Append(decimal[k \div 10], 48 + (k % 10))
    IN  decimal[length] \o <<58>> \o as_bytes(to_string(p))

\* reader.chars().take(n): Chars reads one byte, then the bytes its width asks
\* for, and fails with NotUtf8 on a bad first byte, at the end of the input
\* inside a character, or on an ill-formed sequence; the end of the input
\* between two characters ends the iteration
RECURSIVE chars_take(_, _, _)
chars_take(reader, n, string) ==
    IF n = 0 \/ reader = <<>> THEN [ok |-> TRUE, data |-> string, rest |-> reader]
    ELSE
      LET b1 == reader[1]
          width == IF b1 < 128 THEN 1
                   ELSE IF b1 \in 194..223 THEN 2
                   ELSE IF b1 \in 224..239 THEN 3
                   ELSE IF b1 \in 240..244 THEN 4 ELSE 0
          push(ch) ==
              IF ~ch.ok THEN [ok |-> FALSE, data |-> string, rest |-> <<>>]
              ELSE chars_take(SubSeq(reader, width + 1, Len(reader)), n - 1,
                              string \o ch.data)
      IN  push(IF width = 0 \/ Len(reader) < width THEN BytesErr
               ELSE from_utf8(SubSeq(reader, 1, width)))

\* Packet::from_reader_payload: read_until(b':'), the bytes before the last one
\* read parsed as usize, that many characters, then from_str; rest is what
\* the reader has not consumed
from_reader_payload(reader) ==
    IF reader = <<>> THEN [res |-> Err("UnexpectedEof"), rest |-> <<>>]
    ELSE
      LET colons == {i \in 1..Len(reader) : reader[i] = 58}
          read == IF colons = {} THEN Len(reader)
                  ELSE CHOOSE i \in colons : \A j \in colons : i <= j
          parse(string) ==
              IF ~string.ok THEN [res |-> Err("InvalidData"), rest |-> <<>>]
              ELSE [res |-> from_str(string.data), rest |-> string.rest]
          take(data_length_str) ==
              LET digits == data_length_str.data
                  parsed == /\ data_length_str.ok
                            /\ digits # <<>>
                            /\ \A i \in 1..Len(digits) : digits[i] \in 48..57
                  data_length[i \in 0..Len(digits)] ==
                      IF i = 0 THEN 0 ELSE (data_length[i - 1] * 10) + (digits[i] - 48)
              IN  IF ~parsed THEN [res |-> Err("InvalidData"), rest |-> <<>>]
                  ELSE parse(chars_take(SubSeq(reader, read + 1, Len(reader)),
                                        data_length[Len(digits)], <<>>))
      IN  take(from_utf8(SubSeq(reader, 1, read - 1)))

\* a from_reader_all that returns after the first packet
from_reader_all_first_only(reader, results) ==
    LET match(r) ==
            IF r.res.ok THEN [ok |-> TRUE, kind |-> "none", packets |-> <<r.res.packet>>]
            ELSE IF r.res.kind = "UnexpectedEof"
            THEN [ok |-> TRUE, kind |-> "none", packets |-> results]
            ELSE [ok |-> FALSE, kind |-> r.res.kind, packets |-> <<>>]
    IN  match(from_reader_payload(reader))

\* a from_reader_all that takes every error for the end of the input
RECURSIVE from_reader_all_lenient(_, _)
from_reader_all_lenient(reader, results) ==
    LET match(r) ==
            IF r.res.ok THEN from_reader_all_lenient(r.rest, Append(results, r.res.packet))
            ELSE [ok |-> TRUE, kind |-> "none", packets |-> results]
    IN  match(from_reader_payload(reader))

\* Packet::from_reader_all: from_reader_payload until it fails; UnexpectedEof
\* returns the packets read, any other error is returned
RECURSIVE from_reader_all(_, _)
from_reader_all(reader, results) ==
    LET match(r) ==
            IF r.res.ok THEN from_reader_all(r.rest, Append(results, r.res.packet))
            ELSE IF r.res.kind = "UnexpectedEof"
            THEN [ok |-> TRUE, kind |-> "none", packets |-> results]
            ELSE [ok |-> FALSE, kind |-> r.res.kind, packets |-> <<>>]
    IN  match(from_reader_payload(reader))

\* ------------------------------------------------------------------------
\* State
\* ------------------------------------------------------------------------
VARIABLES
    api,                  \* "Connection": the transport is owned by a Connection;
                          \* "Polling": the Polling handle is used directly
    previously_connected, \* argument of Polling::create
    transport,            \* ConnectionState.transport: "Some" or "None"
    state,                \* ConnectionState.state: Pending, Connected, Disconnected
    conn_lock,            \* 0: the connection mutex is free; c: it is held by
                          \* disconnect(), which awaits the future of call c
    handle,               \* the Polling handle: "alive" or "dropped"
    calls,                \* the futures handed out, in call order
    ev_rx,                \* channel of PollEvents from the handle to the thread
    pc,                   \* position of the thread running handle_polling
    is_paused,            \* handle_polling: is_paused
    packet_buffer,        \* handle_polling: packet_buffer
    pack_rx,              \* channel carrying the result of the GET in flight
    jobs,                 \* the thread pool's job queue
    running,              \* jobs taken by a worker thread
    responses,            \* number of GETs the server has answered with data
    srv_recv,             \* bodies of the POSTs, in order of arrival at the server
    events,               \* EngineEvents passed to the transport's callback
    delivered,            \* events passed on to the user's callbacks
    \* the WebSocket transport (transports/websocket.rs)
    ws_thread,            \* the "Engine.io websocket thread": connecting, open,
                          \* closing, ended; "none" when there is no WebSocket
    sender_rx,            \* channel carrying the ws::Sender to WaitForSender
    event_rx,             \* channel of Events from the Handler to the reactor
    connect_fut,          \* the future returned by connect()
    probe_event,          \* the event WaitForHandshake has taken from event_rx
    ws_out,               \* what ws::Sender has queued for the server, in order
    tx,                   \* the Sender of the pair: Absent, Some, Consumed
    rx,                   \* the Receiver of the pair: Absent, or its field Some / None
    yielded,              \* what the polls of the Receiver have returned
    ws_calls,             \* results of the calls made on the Sender
    frames,               \* number of frames the server has sent
    undecoded,            \* 0, or the number of the frame whose decoding has failed
    \* the unified connection (upgrade coordinator)
    p_state,              \* polling receiver: Empty, Waiting, Ready, Closed
    p_iter,               \* the packets left in Ready(iter)
    get,                  \* the GET of Waiting(poll_start, fut)
    srv_q,                \* packets the server has queued for the next GET
    made,                 \* number of packets the server has queued so far
    upgrade_seen,         \* when the Upgrade packet reached the server
    u_inflight,           \* POSTs of the polling sender on their way
    u_posted,             \* bodies of the POSTs, in order of arrival at the server
    slots,                \* the two WebSocket slots: Empty or Populated
    coord,                \* position of the background probe task
    u_closed,             \* the close channel has been signalled
    u_pair,               \* the unified pair: alive or dropped
    u_term,               \* the unified stream has ended
    u_out,                \* what the polls of the unified receiver have returned
    u_calls,              \* results of the calls made on the unified sender
    \* the Client (client.rs) and the transports its connect calls make
    cl_state,             \* ConnectionState.state of the connection of the Client
    cl_transport,         \* ConnectionState.transport: 0 for None, or the number
                          \* of the connect call that made the transport
    cl_connects,          \* the connect calls: position, state seen, result
    cl_polling,           \* the transports made: position of the thread,
                          \* the connect call whose transport replaced it, and
                          \* whether a Close event waits for it
    \* one call of a function of the codec or of the HTTP helpers
    c_pc,                 \* "args": packets to write; "written": they are in the
                          \* buffer; "response": an HTTP response has arrived;
                          \* "done": the call has returned
    c_packets,            \* the packets given by the caller
    c_body,               \* the buffer written, or the body of the response;
                          \* a reader leaves here what it has not consumed
    c_status,             \* HTTP status of the response; 0: no response (I/O error)
    c_ret                 \* what the last call returned

pollVars == <<api, previously_connected, transport, state, conn_lock, handle,
              calls, ev_rx, pc, is_paused, packet_buffer, pack_rx, jobs,
              running, responses, srv_recv, events, delivered>>

wsVars == <<ws_thread, sender_rx, event_rx, connect_fut, probe_event, ws_out, tx, rx,
            yielded, ws_calls, frames, undecoded>>

uniVars == <<p_state, p_iter, get, srv_q, made, upgrade_seen, u_inflight, u_posted,
             slots, coord, u_closed, u_pair, u_term, u_out, u_calls>>

clientVars == <<cl_state, cl_transport, cl_connects, cl_polling>>

codecVars == <<c_pc, c_packets, c_body, c_status, c_ret>>

vars == <<pollVars, wsVars, uniVars, clientVars, codecVars>>

\* ------------------------------------------------------------------------
\* Helpers
\* ------------------------------------------------------------------------
\* the packets of the list passed to call c: Message packets tagged <<c, i>>
UserPackets(c, n) == [i \in 1..n |-> with_str("Message", <<c, i>>)]

\* the shapes of the bodies with which the server answers a GET
ServerShapes == { <<"Noop", "Message">>, <<"Close", "Message">>, <<"Ping">> }

\* the body of the r-th answered GET: packets tagged <<r, i>>
ServerBatch(r, shape) == [i \in 1..Len(shape) |-> with_str(shape[i], <<r, i>>)]

RECURSIVE Flatten(_)
Flatten(ss) == IF ss = <<>> THEN <<>> ELSE Head(ss) \o Flatten(Tail(ss))

\* the receiving end of the event channel is gone once the thread has ended
ThreadGone == pc \in {"returned", "panicked"}

\* Complete::complete / Complete::fail / drop of a Complete (abort)
Resolve(cs, ids, status) ==
    [c \in DOMAIN cs |-> IF c \in ids /\ cs[c].status = "pending"
                         THEN [cs[c] EXCEPT !.status = status] ELSE cs[c]]

NewCall(kind, status) == [kind |-> kind, status |-> status]

PollEvent(kind, id, packets) == [kind |-> kind, id |-> id, packets |-> packets]

EngineEvent(ev, packet) == [ev |-> ev, packet |-> packet]

NoPacket == empty("Noop")

\* ------------------------------------------------------------------------
\* The callback given to the transport
\* ------------------------------------------------------------------------
\* a closure that takes a failed connection attempt for the end of the connection
create_connection_ending_on_ConnectError(acc, e) ==
    LET on_disconnect == [acc EXCEPT !.state = "Disconnected",
                                     !.delivered = Append(@, EngineEvent("Disconnect", NoPacket))]
    IN  CASE e.ev = "Connect" ->
                [acc EXCEPT !.state = "Connected", !.delivered = Append(@, e)]
          [] e.ev = "ConnectError" ->
                [acc EXCEPT !.state = "Disconnected", !.delivered = Append(@, e)]
          [] e.ev = "Disconnect" -> on_disconnect
          [] e.ev = "Error" ->
                [acc EXCEPT !.state = "Disconnected", !.delivered = Append(@, e)]
          [] e.ev = "Message" ->
                CASE e.packet.opcode = "Close" -> on_disconnect
                  [] e.packet.opcode \in {"Message", "Pong"} ->
                        [acc EXCEPT !.delivered = Append(@, e)]
                  [] e.packet.opcode = "Noop" -> acc
                  [] OTHER -> [acc EXCEPT !.panicked = TRUE]

\* the closure create_connection passes to Polling::new, applied to one event;
\* acc is [state, delivered, panicked]
create_connection(acc, e) ==
    LET on_disconnect == [acc EXCEPT !.state = "Disconnected",
                                     !.delivered = Append(@, EngineEvent("Disconnect", NoPacket))]
    IN  CASE e.ev = "Connect" ->
                [acc EXCEPT !.state = "Connected", !.delivered = Append(@, e)]
          [] e.ev = "ConnectError" ->
                [acc EXCEPT !.delivered = Append(@, e)]
          [] e.ev = "Disconnect" -> on_disconnect
          [] e.ev = "Error" ->
                [acc EXCEPT !.state = "Disconnected", !.delivered = Append(@, e)]
          [] e.ev = "Message" ->
                CASE e.packet.opcode = "Close" -> on_disconnect
                  [] e.packet.opcode \in {"Message", "Pong"} ->
                        [acc EXCEPT !.delivered = Append(@, e)]
                  [] e.packet.opcode = "Noop" -> acc
                  [] OTHER -> [acc EXCEPT !.panicked = TRUE]

\* the closure of a program that uses Polling directly (polling.rs, test::connection):
\* every event is passed on
user_callback(acc, e) == [acc EXCEPT !.delivered = Append(@, e)]

\* callback(ev) in handle_polling; nothing runs once the callback has panicked
callback(acc, e) ==
    IF acc.panicked THEN acc
    ELSE LET a == [acc EXCEPT !.events = Append(@, e)]
         IN  IF api = "Connection" THEN create_connection(a, e) ELSE user_callback(a, e)

RECURSIVE callback_all(_, _)
callback_all(acc, es) ==
    IF es = <<>> THEN acc ELSE callback_all(callback(acc, Head(es)), Tail(es))

Acc == [state |-> state, delivered |-> delivered, events |-> events, panicked |-> FALSE]

\* the thread ends (return or panic): ev_rx and packet_buffer are dropped and
\* with them the Completes they hold, which aborts their futures
DroppedCompletes == { ev_rx[i].id : i \in DOMAIN ev_rx }
                        \cup { packet_buffer[i].id : i \in DOMAIN packet_buffer }

\* ------------------------------------------------------------------------
\* The Polling handle (impl Transport for Polling, impl Drop for Polling)
\* ------------------------------------------------------------------------
\* self.0.send(PollEvent::...) and the Err(SendError(..)) arm of the method;
\* fallback is what the method does with tx when the channel is disconnected
PollingCall(cs, kind, packets, fallback) ==
    LET c == Len(cs) + 1
    IN  IF ThreadGone
        THEN [calls |-> Append(cs, NewCall(kind, fallback)), ev |-> <<>>]
        ELSE [calls |-> Append(cs, NewCall(kind, "pending")),
              ev |-> <<PollEvent(IF kind \in {"drop", "disconnect"} THEN "Close" ELSE kind,
                                 c, packets)>>]

\* Polling::send
Polling_send(cs, n) == PollingCall(cs, "Send", UserPackets(Len(cs) + 1, n), "invalid_state")

\* Polling::close
Polling_close(cs, kind) == PollingCall(cs, kind, <<>>, "ok")

\* Polling::pause
Polling_pause(cs) == PollingCall(cs, "Pause", <<>>, "invalid_state")

\* Polling::start
Polling_start(cs) == PollingCall(cs, "Start", <<>>, "invalid_state")

UserUnchanged == UNCHANGED <<api, previously_connected, state, pc, is_paused,
                             packet_buffer, pack_rx, jobs, running, responses,
                             srv_recv, events, delivered, wsVars, uniVars, clientVars, codecVars>>

\* the handle is in the hands of the program, which makes at most bound calls
DirectUseWithin(bound) == api = "Polling" /\ handle = "alive" /\ Len(calls) < bound

DirectUse == DirectUseWithin(MaxCalls)

UserSendWithin(bound) ==
    /\ DirectUseWithin(bound)
    /\ \E n \in 1..MaxBatch :
          LET r == Polling_send(calls, n)
          IN  calls' = r.calls /\ ev_rx' = ev_rx \o r.ev
    /\ UNCHANGED <<transport, conn_lock, handle>>
    /\ UserUnchanged

UserSend == UserSendWithin(MaxCalls)

UserClose ==
    /\ DirectUse
    /\ LET r == Polling_close(calls, "Close")
       IN  calls' = r.calls /\ ev_rx' = ev_rx \o r.ev
    /\ UNCHANGED <<transport, conn_lock, handle>>
    /\ UserUnchanged

UserPauseWithin(bound) ==
    /\ DirectUseWithin(bound)
    /\ LET r == Polling_pause(calls)
       IN  calls' = r.calls /\ ev_rx' = ev_rx \o r.ev
    /\ UNCHANGED <<transport, conn_lock, handle>>
    /\ UserUnchanged

UserPause == UserPauseWithin(MaxCalls)

UserStartWithin(bound) ==
    /\ DirectUseWithin(bound)
    /\ LET r == Polling_start(calls)
       IN  calls' = r.calls /\ ev_rx' = ev_rx \o r.ev
    /\ UNCHANGED <<transport, conn_lock, handle>>
    /\ UserUnchanged

UserStart == UserStartWithin(MaxCalls)

\* impl Drop for Polling: self.close().await()
Polling_drop(cs) == Polling_close(cs, "drop")

UserDrop ==
    /\ api = "Polling" /\ handle = "alive"
    /\ LET r == Polling_drop(calls)
       IN  calls' = r.calls /\ ev_rx' = ev_rx \o r.ev
    /\ handle' = "dropped"
    /\ UNCHANGED <<transport, conn_lock>>
    /\ UserUnchanged

\* ------------------------------------------------------------------------
\* The Connection (connection.rs)
\* ------------------------------------------------------------------------
\* Connection::send_all
Connection_send_all ==
    /\ api = "Connection" /\ conn_lock = 0 /\ Len(calls) < MaxCalls
    /\ \E n \in 1..MaxBatch :
          IF transport = "Some"
          THEN LET r == Polling_send(calls, n)
               IN  calls' = r.calls /\ ev_rx' = ev_rx \o r.ev
          ELSE /\ calls' = Append(calls, NewCall("Send", "invalid_state"))
               /\ ev_rx' = ev_rx
    /\ UNCHANGED <<transport, conn_lock, handle>>
    /\ UserUnchanged

\* Connection::disconnect: the transport is taken, closed and then dropped, and
\* the drop awaits a second close while the mutex guard is still alive
Connection_disconnect ==
    /\ api = "Connection" /\ conn_lock = 0 /\ Len(calls) < MaxCalls
    /\ IF transport = "Some"
       THEN LET r1 == Polling_close(calls, "disconnect")
                r2 == Polling_drop(r1.calls)
            IN  /\ calls' = r2.calls
                /\ ev_rx' = ev_rx \o r1.ev \o r2.ev
                /\ conn_lock' = Len(r2.calls)
                /\ transport' = "None"
                /\ handle' = "dropped"
       ELSE /\ calls' = Append(calls, NewCall("disconnect", "false"))
            /\ UNCHANGED <<ev_rx, conn_lock, transport, handle>>
    /\ UserUnchanged

\* the await in Drop for Polling returns and the mutex guard is released
Connection_disconnect_return ==
    /\ conn_lock # 0
    /\ calls[conn_lock].status # "pending"
    /\ conn_lock' = 0
    /\ UNCHANGED <<transport, handle, calls, ev_rx>>
    /\ UserUnchanged

\* the last clone of the Connection is dropped, and with it the transport
Connection_drop ==
    /\ api = "Connection" /\ conn_lock = 0 /\ transport = "Some"
    /\ LET r == Polling_drop(calls)
       IN  calls' = r.calls /\ ev_rx' = ev_rx \o r.ev
    /\ transport' = "None"
    /\ handle' = "dropped"
    /\ UNCHANGED conn_lock
    /\ UserUnchanged

\* ------------------------------------------------------------------------
\* The thread of the transport (handle_polling)
\* ------------------------------------------------------------------------
Job(kind, id, packets, elapsed) ==
    [kind |-> kind, id |-> id, packets |-> packets, elapsed |-> elapsed]

PollResult(tag, packets, err, elapsed) ==
    [tag |-> tag, packets |-> packets, err |-> err, elapsed |-> elapsed]

\* send_async(&thread_pool, ..): one job per buffered list, in buffer order
send_async(buffer) == [i \in DOMAIN buffer |-> Job("send", buffer[i].id, buffer[i].packets, 0)]

\* poll_async(&thread_pool, ..)
poll_async == <<Job("poll", 0, <<>>, 0)>>

ThreadUnchanged == UNCHANGED <<api, previously_connected, transport, conn_lock, handle,
                               wsVars, uniVars, clientVars, codecVars>>

\* the start of the thread without its test of previously_connected
handle_polling_connect_always ==
    /\ pc = "spawned"
    /\ LET a == callback(Acc, EngineEvent("Connect", NoPacket))
       IN  /\ state' = a.state
           /\ delivered' = a.delivered
           /\ events' = a.events
    /\ pc' = "loop"
    /\ UNCHANGED <<calls, ev_rx, is_paused, packet_buffer, pack_rx, jobs, running,
                   responses, srv_recv>>
    /\ ThreadUnchanged

\* if !previously_connected { callback(EngineEvent::Connect(&cfg)) }
handle_polling_connect ==
    /\ pc = "spawned"
    /\ LET a == IF previously_connected THEN Acc
                ELSE callback(Acc, EngineEvent("Connect", NoPacket))
       IN  /\ state' = a.state
           /\ delivered' = a.delivered
           /\ events' = a.events
    /\ pc' = "loop"
    /\ UNCHANGED <<calls, ev_rx, is_paused, packet_buffer, pack_rx, jobs, running,
                   responses, srv_recv>>
    /\ ThreadUnchanged

\* head of the outer loop: a fresh channel, and a GET unless the transport is paused
handle_polling_poll ==
    /\ pc = "loop"
    /\ pack_rx' = <<>>
    /\ jobs' = IF is_paused THEN jobs ELSE jobs \o poll_async
    /\ pc' = "select"
    /\ UNCHANGED <<calls, ev_rx, is_paused, packet_buffer, running, responses,
                   srv_recv, events, delivered, state>>
    /\ ThreadUnchanged

\* select! arm ev_rx.recv(), Ok(PollEvent::Close(tx)): the Close packet is posted
\* synchronously (its result is ignored), Disconnect is reported, tx is completed
\* and the thread returns. A callback of the user of a Connection may call
\* state(), config() or send() on it, which lock the mutex of the Connection:
\* while another thread holds it the callback waits, and the thread with it
handle_polling_Close ==
    LET a == callback(Acc, EngineEvent("Disconnect", NoPacket))
        returns ==
            /\ calls' = Resolve(Resolve(calls, {Head(ev_rx).id}, "ok"),
                                DroppedCompletes, "aborted")
            /\ ev_rx' = <<>>
            /\ packet_buffer' = <<>>
            /\ pc' = "returned"
    IN  /\ \/ /\ pc = "select" /\ ev_rx # <<>> /\ Head(ev_rx).kind = "Close"
              /\ \E ok \in BOOLEAN :
                    srv_recv' = IF ok THEN Append(srv_recv, <<empty("Close")>>)
                                ELSE srv_recv
              /\ state' = a.state
              /\ delivered' = a.delivered
              /\ events' = a.events
              /\ \E locks \in IF api = "Connection" THEN BOOLEAN ELSE {FALSE} :
                    IF locks /\ conn_lock # 0
                    THEN /\ pc' = "callback"
                         /\ UNCHANGED <<calls, ev_rx, packet_buffer>>
                    ELSE returns
           \/ /\ pc = "callback" /\ conn_lock = 0
              /\ returns
              /\ UNCHANGED <<srv_recv, state, delivered, events>>
        /\ UNCHANGED <<is_paused, pack_rx, jobs, running, responses>>
        /\ ThreadUnchanged

\* Ok(PollEvent::Pause(tx))
handle_polling_Pause ==
    /\ pc = "select" /\ ev_rx # <<>> /\ Head(ev_rx).kind = "Pause"
    /\ is_paused' = TRUE
    /\ calls' = Resolve(calls, {Head(ev_rx).id}, "ok")
    /\ ev_rx' = Tail(ev_rx)
    /\ UNCHANGED <<pc, packet_buffer, pack_rx, jobs, running, responses, srv_recv,
                   events, delivered, state>>
    /\ ThreadUnchanged

\* Ok(PollEvent::Send(packets, tx))
handle_polling_Send ==
    /\ pc = "select" /\ ev_rx # <<>> /\ Head(ev_rx).kind = "Send"
    /\ LET buffer == Append(packet_buffer, Head(ev_rx))
       IN  IF ~is_paused
           THEN jobs' = jobs \o send_async(buffer) /\ packet_buffer' = <<>>
           ELSE jobs' = jobs /\ packet_buffer' = buffer
    /\ ev_rx' = Tail(ev_rx)
    /\ UNCHANGED <<pc, calls, is_paused, pack_rx, running, responses, srv_recv,
                   events, delivered, state>>
    /\ ThreadUnchanged

\* a Start arm that also issues a GET, whether or not one is outstanding
handle_polling_Start_polling ==
    /\ pc = "select" /\ ev_rx # <<>> /\ Head(ev_rx).kind = "Start"
    /\ is_paused' = FALSE
    /\ jobs' = jobs \o send_async(packet_buffer) \o poll_async
    /\ packet_buffer' = <<>>
    /\ calls' = Resolve(calls, {Head(ev_rx).id}, "ok")
    /\ ev_rx' = Tail(ev_rx)
    /\ UNCHANGED <<pc, pack_rx, running, responses, srv_recv, events, delivered, state>>
    /\ ThreadUnchanged

\* Ok(PollEvent::Start(tx))
handle_polling_Start ==
    /\ pc = "select" /\ ev_rx # <<>> /\ Head(ev_rx).kind = "Start"
    /\ is_paused' = FALSE
    /\ jobs' = jobs \o send_async(packet_buffer)
    /\ packet_buffer' = <<>>
    /\ calls' = Resolve(calls, {Head(ev_rx).id}, "ok")
    /\ ev_rx' = Tail(ev_rx)
    /\ UNCHANGED <<pc, pack_rx, running, responses, srv_recv, events, delivered, state>>
    /\ ThreadUnchanged

\* select! arm pack_rx.recv(), Ok(Ok(packets)): every packet goes to the callback,
\* then the inner loop is left; a panic of the callback ends the thread
handle_polling_packets ==
    /\ pc = "select" /\ pack_rx # <<>> /\ Head(pack_rx).tag = "Ok"
    /\ LET es == [i \in DOMAIN Head(pack_rx).packets |->
                     EngineEvent("Message", Head(pack_rx).packets[i])]
           a  == callback_all(Acc, es)
       IN  /\ state' = a.state
           /\ delivered' = a.delivered
           /\ events' = a.events
           /\ IF a.panicked
              THEN /\ pc' = "panicked"
                   /\ calls' = Resolve(calls, DroppedCompletes, "aborted")
                   /\ ev_rx' = <<>>
                   /\ packet_buffer' = <<>>
              ELSE /\ pc' = "loop"
                   /\ UNCHANGED <<calls, ev_rx, packet_buffer>>
    /\ pack_rx' = <<>>
    /\ UNCHANGED <<is_paused, jobs, running, responses, srv_recv>>
    /\ ThreadUnchanged

\* select! arm pack_rx.recv(), Ok(Err(AsyncError::Failed(err))): the error is
\* reported and the thread returns
handle_polling_error ==
    /\ pc = "select" /\ pack_rx # <<>> /\ Head(pack_rx).tag = "Err"
    /\ LET a == callback(Acc, [ev |-> "Error", packet |-> NoPacket,
                               err |-> Head(pack_rx).err, elapsed |-> Head(pack_rx).elapsed])
       IN  /\ state' = a.state
           /\ delivered' = a.delivered
           /\ events' = a.events
    /\ calls' = Resolve(calls, DroppedCompletes, "aborted")
    /\ ev_rx' = <<>>
    /\ packet_buffer' = <<>>
    /\ pack_rx' = <<>>
    /\ pc' = "returned"
    /\ UNCHANGED <<is_paused, jobs, running, responses, srv_recv>>
    /\ ThreadUnchanged

\* ------------------------------------------------------------------------
\* The worker threads of the pool
\* ------------------------------------------------------------------------
WorkerUnchanged == UNCHANGED <<api, previously_connected, transport, state, conn_lock,
                               handle, ev_rx, pc, is_paused, packet_buffer,
                               events, delivered, wsVars, uniVars, clientVars, codecVars>>

\* a free worker takes the oldest job of the queue
worker_take ==
    /\ jobs # <<>> /\ Cardinality(running) < PoolSize
    /\ running' = running \cup {Head(jobs)}
    /\ jobs' = Tail(jobs)
    /\ UNCHANGED <<calls, pack_rx, responses, srv_recv>>
    /\ WorkerUnchanged

\* send(url, sid, packets) on a worker: the POST reaches the server or fails
\* with an I/O error; any response counts as success
send(j) ==
    /\ j.kind = "send"
    /\ \E ok \in BOOLEAN :
          /\ srv_recv' = IF ok THEN Append(srv_recv, j.packets) ELSE srv_recv
          /\ calls' = Resolve(calls, {j.id}, IF ok THEN "ok" ELSE "failed")
    /\ running' = running \ {j}
    /\ UNCHANGED <<jobs, pack_rx, responses>>
    /\ WorkerUnchanged

\* the guard of the retry arm of poll():
\* err.kind() == TimedOut && pre_poll_time.elapsed() < timeout
poll_retries(elapsed, timeout) == elapsed < timeout

\* tx.complete / tx.fail of poll_async, received by the closure that owns pack_tx
pack_tx_send(res) == IF ThreadGone THEN pack_rx ELSE Append(pack_rx, res)

\* poll(url, timeout, sid) on a worker, one GET: a response ends the loop
poll_response(j) ==
    /\ j.kind = "poll" /\ responses < MaxPolls
    /\ \E shape \in ServerShapes :
          pack_rx' = pack_tx_send(PollResult("Ok", ServerBatch(responses + 1, shape), "none", j.elapsed))
    /\ responses' = responses + 1
    /\ running' = running \ {j}
    /\ UNCHANGED <<jobs, calls, srv_recv>>
    /\ WorkerUnchanged

\* one GET times out d ticks later: a new GET, or the error is returned
poll_timeout(j) ==
    /\ j.kind = "poll"
    /\ \E d \in 1..MaxStep :
          LET elapsed == j.elapsed + d
          IN  IF poll_retries(elapsed, PingTimeout)
              THEN /\ running' = (running \ {j}) \cup {[j EXCEPT !.elapsed = elapsed]}
                   /\ pack_rx' = pack_rx
              ELSE /\ running' = running \ {j}
                   /\ pack_rx' = pack_tx_send(PollResult("Err", <<>>, "TimedOut", elapsed))
    /\ UNCHANGED <<jobs, calls, responses, srv_recv>>
    /\ WorkerUnchanged

\* one GET fails with another error, which is returned
poll_failure(j) ==
    /\ j.kind = "poll"
    /\ running' = running \ {j}
    /\ pack_rx' = pack_tx_send(PollResult("Err", <<>>, "Io", j.elapsed))
    /\ UNCHANGED <<jobs, calls, responses, srv_recv>>
    /\ WorkerUnchanged

\* ------------------------------------------------------------------------
\* The polling transport and its connection
\* ------------------------------------------------------------------------
\* no unified connection exists
NoUnified ==
    /\ p_state = "none"
    /\ p_iter = <<>>
    /\ get = [st |-> "none", tag |-> "Ok", packets |-> <<>>, elapsed |-> 0]
    /\ srv_q = <<>>
    /\ made = 0
    /\ upgrade_seen = [seen |-> FALSE, frames |-> 0, made |-> 0]
    /\ u_inflight = {}
    /\ u_posted = <<>>
    /\ slots = "Empty"
    /\ coord = "none"
    /\ u_closed = FALSE
    /\ u_pair = "none"
    /\ u_term = FALSE
    /\ u_out = <<>>
    /\ u_calls = <<>>

\* no WebSocket transport exists
NoWebSocket ==
    /\ ws_thread = "none"
    /\ sender_rx = <<>>
    /\ event_rx = <<>>
    /\ connect_fut = "none"
    /\ probe_event = [tag |-> "None", packet |-> empty("Noop")]
    /\ ws_out = <<>>
    /\ tx = "Absent"
    /\ rx = "Absent"
    /\ yielded = <<>>
    /\ ws_calls = <<>>
    /\ frames = 0
    /\ undecoded = 0

\* no function of the codec is being called
NoCodec ==
    /\ c_pc = "done"
    /\ c_packets = <<>>
    /\ c_body = <<>>
    /\ c_status = 0
    /\ c_ret = [fn |-> "none", arg |-> "none", ok |-> TRUE, kind |-> "none",
                packets |-> <<>>, n |-> 0]

\* Client::new and Connection::new: no connect call made, no transport
Client_new ==
    /\ cl_state = "Pending"
    /\ cl_transport = 0
    /\ cl_connects = [i \in 1..MaxConnects |-> [pc |-> "idle", seen |-> "none", result |-> "none"]]
    /\ cl_polling = [i \in 1..MaxConnects |-> [pc |-> "none", close |-> FALSE, by |-> 0]]

\* the state after Polling::create has spawned the thread, which has not run yet
InitTransport ==
    /\ state = "Pending"
    /\ conn_lock = 0
    /\ handle = "alive"
    /\ calls = <<>>
    /\ ev_rx = <<>>
    /\ pc = "spawned"
    /\ is_paused = FALSE
    /\ packet_buffer = <<>>
    /\ pack_rx = <<>>
    /\ jobs = <<>>
    /\ running = {}
    /\ responses = 0
    /\ srv_recv = <<>>
    /\ events = <<>>
    /\ delivered = <<>>

\* the thread of the transport and the workers of its pool, but for the two
\* events that only a direct user of the transport can send
NextTransport ==
    \/ handle_polling_connect
    \/ handle_polling_poll
    \/ handle_polling_Close
    \/ handle_polling_Send
    \/ handle_polling_packets
    \/ handle_polling_error
    \/ worker_take
    \/ \E j \in running : send(j)
    \/ \E j \in running : poll_response(j)
    \/ \E j \in running : poll_timeout(j)
    \/ \E j \in running : poll_failure(j)

\* a program that uses the transport directly, made by Polling::new
InitPolling ==
    /\ api = "Polling"
    /\ previously_connected = FALSE
    /\ transport = "None"
    /\ InitTransport
    /\ NoWebSocket
    /\ NoUnified
    /\ Client_new
    /\ NoCodec

NextPolling ==
    \/ UserSend
    \/ UserClose
    \/ UserPause
    \/ UserStart
    \/ UserDrop
    \/ handle_polling_Pause
    \/ handle_polling_Start
    \/ NextTransport

SpecPolling == InitPolling /\ [][NextPolling]_vars

\* a program that pauses the transport, sends and starts it again, and never
\* closes it or drops the handle
NextPaused ==
    \/ UserSendWithin(MaxPausedCalls)
    \/ UserPauseWithin(MaxPausedCalls)
    \/ UserStartWithin(MaxPausedCalls)
    \/ handle_polling_connect
    \/ handle_polling_poll
    \/ handle_polling_Pause
    \/ handle_polling_Send
    \/ handle_polling_Start
    \/ handle_polling_packets
    \/ handle_polling_error
    \/ worker_take
    \/ \E j \in running : send(j)
    \/ \E j \in running : poll_response(j)
    \/ \E j \in running : poll_timeout(j)
    \/ \E j \in running : poll_failure(j)

SpecPaused == InitPolling /\ [][NextPaused]_vars

\* a program that uses a transport made by Polling::new (after its handshake)
\* or by Polling::with_cfg, which passes previously_connected = true
InitCreated ==
    /\ api = "Polling"
    /\ previously_connected \in BOOLEAN
    /\ transport = "None"
    /\ InitTransport
    /\ NoWebSocket
    /\ NoUnified
    /\ Client_new
    /\ NoCodec

SpecCreated == InitCreated /\ [][NextPolling]_vars

\* a Connection after Connection::connect has stored the transport made by
\* create_connection (Polling::new)
InitConnection ==
    /\ api = "Connection"
    /\ previously_connected = FALSE
    /\ transport = "Some"
    /\ InitTransport
    /\ NoWebSocket
    /\ NoUnified
    /\ Client_new
    /\ NoCodec

NextConnection ==
    \/ Connection_send_all
    \/ Connection_disconnect
    \/ Connection_disconnect_return
    \/ Connection_drop
    \/ NextTransport

SpecConnection == InitConnection /\ [][NextConnection]_vars

\* the events of enum EngineEvent, with a packet of every opcode in Message
EngineEvents ==
    {EngineEvent(ev, NoPacket) : ev \in {"Connect", "ConnectError", "Disconnect", "Error"}}
        \cup {EngineEvent("Message", empty(o)) : o \in OpCode}

\* the closure of create_connection is called with at most MaxEvents events, any
\* of them; a panic of the closure ends the thread that calls it
NextClosure ==
    /\ pc # "panicked" /\ Len(events) < MaxEvents
    /\ \E e \in EngineEvents :
          LET a == callback(Acc, e)
          IN  /\ state' = a.state
              /\ delivered' = a.delivered
              /\ events' = a.events
              /\ pc' = IF a.panicked THEN "panicked" ELSE pc
    /\ UNCHANGED <<calls, ev_rx, is_paused, packet_buffer, pack_rx, jobs, running,
                   responses, srv_recv>>
    /\ ThreadUnchanged

SpecClosure == InitConnection /\ [][NextClosure]_vars

\* ------------------------------------------------------------------------
\* The WebSocket transport (transports/websocket.rs)
\* ------------------------------------------------------------------------
\* what the WebSocket transport leaves alone
restVars == <<pollVars, uniVars, clientVars, codecVars>>

\* "probe"
HANDSHAKE_PAYLOAD == <<112, 114, 111, 98, 101>>

\* enum Event
Event(tag, packet) == [tag |-> tag, packet |-> packet]

\* the frames the server may send as its k-th: 3probe, b3cHJvYmU= (the bytes of
\* "probe" as a binary Pong), 3, 2probe, 4 followed by the character k, 1, and 9,
\* which is no packet
ServerFrames(k) == { <<51, 112, 114, 111, 98, 101>>,
                     <<98, 51, 99, 72, 74, 118, 89, 109, 85, 61>>,
                     <<51>>,
                     <<50, 112, 114, 111, 98, 101>>,
                     <<52, k>>,
                     <<49>>,
                     <<57>> }

\* impl From<Packet> for ws::Message: a text frame
Message(p) == [kind |-> "text", data |-> to_string(p)]

\* the close frame of ws::Sender::close
CloseFrame == [kind |-> "close", data |-> <<>>]

\* the receiving end of the event channel is owned by the future returned by
\* connect() and then by the Receiver; it is dropped when the future fails and
\* when a poll leaves the field of the Receiver empty
EventRxAlive == connect_fut \in {"WaitForSender", "WaitForHandshake"} \/ rx = "Some"

\* self.tx.send(event): the event is lost when the receiving end is gone
event_tx_send(q, e) == IF EventRxAlive THEN Append(q, e) ELSE q

\* ws::Sender::send and ws::Sender::close fail once the event loop is gone
SenderGone == ws_thread = "ended"

WsThreadUnchanged == UNCHANGED <<connect_fut, probe_event, ws_out, tx, rx, yielded,
                                 ws_calls, restVars>>

\* ws::connect cannot dial: the expect of the closure panics, the thread ends
\* and both sending ends are dropped
ws_connect_failed ==
    /\ ws_thread = "connecting"
    /\ ws_thread' = "ended"
    /\ UNCHANGED <<sender_rx, event_rx, frames, undecoded>>
    /\ WsThreadUnchanged

\* the factory closure given to ws::connect: the ws::Sender is sent to the
\* reactor and the Handler is made
ws_connect_factory ==
    /\ ws_thread = "connecting"
    /\ ws_thread' = "open"
    /\ sender_rx' = IF connect_fut = "WaitForSender" THEN Append(sender_rx, "sender")
                    ELSE sender_rx
    /\ UNCHANGED <<event_rx, frames, undecoded>>
    /\ WsThreadUnchanged

\* an on_message that drops a frame it cannot decode and goes on
Handler_on_message_skipping ==
    /\ ws_thread = "open" /\ frames < MaxFrames
    /\ \E frame \in ServerFrames(frames + 1) :
          LET pck == from_reader(frame)
          IN  /\ event_rx' = IF pck.ok THEN event_tx_send(event_rx, Event("Packet", pck.packet))
                             ELSE event_rx
              /\ undecoded' = IF pck.ok THEN undecoded ELSE frames + 1
    /\ frames' = frames + 1
    /\ UNCHANGED <<ws_thread, sender_rx>>
    /\ WsThreadUnchanged

\* Handler::on_message: the frame is decoded and sent on as a Packet event; when
\* that fails the library calls on_error
Handler_on_message ==
    /\ ws_thread = "open" /\ frames < MaxFrames
    /\ \E frame \in ServerFrames(frames + 1) :
          LET pck == from_reader(frame)
          IN  /\ IF pck.ok /\ EventRxAlive
                 THEN /\ event_rx' = event_tx_send(event_rx, Event("Packet", pck.packet))
                      /\ ws_thread' = ws_thread
                 ELSE /\ event_rx' = event_tx_send(event_rx, Event("Error", NoPacket))
                      /\ ws_thread' = "closing"
              /\ undecoded' = IF pck.ok THEN undecoded ELSE frames + 1
    /\ frames' = frames + 1
    /\ UNCHANGED sender_rx
    /\ WsThreadUnchanged

\* Handler::on_error, for an error of the connection itself
Handler_on_error ==
    /\ ws_thread = "open"
    /\ event_rx' = event_tx_send(event_rx, Event("Error", NoPacket))
    /\ ws_thread' = "closing"
    /\ UNCHANGED <<sender_rx, frames, undecoded>>
    /\ WsThreadUnchanged

\* Handler::on_close; the event loop of the only connection then ends, and with
\* it the thread
Handler_on_close ==
    /\ ws_thread \in {"open", "closing"}
    /\ event_rx' = event_tx_send(event_rx, Event("Close", NoPacket))
    /\ ws_thread' = "ended"
    /\ UNCHANGED <<sender_rx, frames, undecoded>>
    /\ WsThreadUnchanged

\* the test without its comparison of the payload
WaitForHandshake_accepts_any_pong(pck) == pck.opcode = "Pong"

\* the test without its comparison of the opcode
WaitForHandshake_accepts_any_opcode(pck) ==
    as_str(pck.payload) = [some |-> TRUE, text |-> HANDSHAKE_PAYLOAD]

\* the test replaced by one every packet passes
WaitForHandshake_accepts_anything(pck) == TRUE

\* the test of WaitForHandshake::poll on the first packet
WaitForHandshake_accepts(pck) ==
    pck.opcode = "Pong" /\ as_str(pck.payload) = [some |-> TRUE, text |-> HANDSHAKE_PAYLOAD]

\* WaitForSender::poll and, when it is ready, the closure that sends the probe
WaitForSender_poll ==
    /\ connect_fut = "WaitForSender"
    /\ IF sender_rx # <<>>
       THEN IF SenderGone
            THEN /\ connect_fut' = "Failed"
                 /\ event_rx' = <<>>
                 /\ ws_out' = ws_out
            ELSE /\ connect_fut' = "WaitForHandshake"
                 /\ ws_out' = Append(ws_out, Message(with_str("Ping", HANDSHAKE_PAYLOAD)))
                 /\ event_rx' = event_rx
       ELSE /\ ws_thread = "ended"
            /\ connect_fut' = "Failed"
            /\ event_rx' = <<>>
            /\ ws_out' = ws_out
    /\ sender_rx' = <<>>
    /\ UNCHANGED <<ws_thread, probe_event, tx, rx, yielded, ws_calls, frames, undecoded, restVars>>

\* WaitForHandshake::poll
WaitForHandshake_poll ==
    /\ connect_fut = "WaitForHandshake"
    /\ IF event_rx # <<>>
       THEN LET event == Head(event_rx)
            IN  /\ probe_event' = event
                /\ IF event.tag = "Packet" /\ WaitForHandshake_accepts(event.packet)
                   THEN /\ connect_fut' = "Ready"
                        /\ tx' = "Some"
                        /\ rx' = "Some"
                        /\ event_rx' = Tail(event_rx)
                   ELSE /\ connect_fut' = "Failed"
                        /\ event_rx' = <<>>
                        /\ UNCHANGED <<tx, rx>>
       ELSE /\ ws_thread = "ended"
            /\ probe_event' = Event("Disconnected", NoPacket)
            /\ connect_fut' = "Failed"
            /\ event_rx' = <<>>
            /\ UNCHANGED <<tx, rx>>
    /\ UNCHANGED <<ws_thread, sender_rx, ws_out, yielded, ws_calls, frames, undecoded, restVars>>

\* Receiver::poll: what it returns, what it leaves in the field and in the channel
Receiver_poll(field, q) ==
    IF field # "Some"
    THEN [tag |-> "Panic", packet |-> NoPacket, field |-> "Panicked", q |-> q]
    ELSE IF q # <<>>
    THEN CASE Head(q).tag = "Close" ->
                [tag |-> "End", packet |-> NoPacket, field |-> "None", q |-> <<>>]
           [] Head(q).tag = "Error" ->
                [tag |-> "Err", packet |-> NoPacket, field |-> "None", q |-> <<>>]
           [] OTHER ->
                [tag |-> "Packet", packet |-> Head(q).packet, field |-> "Some", q |-> Tail(q)]
    ELSE IF ws_thread = "ended"
    THEN [tag |-> "End", packet |-> NoPacket, field |-> "None", q |-> <<>>]
    ELSE [tag |-> "NotReady", packet |-> NoPacket, field |-> "Some", q |-> q]

\* the consumer polls the Receiver; a poll that is not ready changes nothing
ReceiverPoll ==
    /\ rx \in {"Some", "None"}
    /\ LET r == Receiver_poll(rx, event_rx)
       IN  /\ r.tag # "NotReady"
           /\ rx' = r.field
           /\ event_rx' = r.q
           /\ yielded' = Append(yielded, [tag |-> r.tag, packet |-> r.packet])
    /\ UNCHANGED <<ws_thread, sender_rx, connect_fut, probe_event, ws_out, tx, ws_calls,
                   frames, undecoded, restVars>>

\* a send that stops after the first packet of the list
Sender_send_first_only(out, packets) ==
    IF SenderGone THEN [ok |-> FALSE, out |-> out]
    ELSE [ok |-> TRUE, out |-> Append(out, Message(Head(packets)))]

\* Sender::send: every packet of the list goes to ws::Sender::send, in list order
Sender_send(out, packets) ==
    IF SenderGone THEN [ok |-> FALSE, out |-> out]
    ELSE [ok |-> TRUE, out |-> out \o [i \in DOMAIN packets |-> Message(packets[i])]]

SenderSend ==
    /\ tx = "Some" /\ Len(ws_calls) < MaxCalls
    /\ \E n \in 1..MaxBatch :
          LET r == Sender_send(ws_out, UserPackets(Len(ws_calls) + 1, n))
          IN  /\ ws_out' = r.out
              /\ ws_calls' = Append(ws_calls, NewCall("Send", IF r.ok THEN "ok" ELSE "failed"))
    /\ UNCHANGED <<ws_thread, sender_rx, event_rx, connect_fut, probe_event, tx, rx,
                   yielded, frames, undecoded, restVars>>

\* Sender::close: a Close packet and a close frame when the client closes,
\* nothing when the server has
Sender_close(out, initiator) ==
    IF initiator # "Client" THEN [ok |-> TRUE, out |-> out, closing |-> FALSE]
    ELSE IF SenderGone THEN [ok |-> FALSE, out |-> out, closing |-> FALSE]
    ELSE [ok |-> TRUE, out |-> out \o <<Message(empty("Close")), CloseFrame>>,
          closing |-> TRUE]

SenderClose ==
    /\ tx = "Some"
    /\ \E initiator \in {"Client", "Server"} :
          LET r == Sender_close(ws_out, initiator)
          IN  /\ ws_out' = r.out
              /\ ws_calls' = Append(ws_calls, NewCall("Close", IF r.ok THEN "ok" ELSE "failed"))
              /\ ws_thread' = IF r.closing /\ ws_thread = "open" THEN "closing" ELSE ws_thread
    /\ tx' = "Consumed"
    /\ UNCHANGED <<sender_rx, event_rx, connect_fut, probe_event, rx, yielded, frames, undecoded,
                   restVars>>

\* no polling transport exists
NoPolling ==
    /\ previously_connected = FALSE
    /\ transport = "None"
    /\ state = "Pending"
    /\ conn_lock = 0
    /\ handle = "dropped"
    /\ calls = <<>>
    /\ ev_rx = <<>>
    /\ pc = "none"
    /\ is_paused = FALSE
    /\ packet_buffer = <<>>
    /\ pack_rx = <<>>
    /\ jobs = <<>>
    /\ running = {}
    /\ responses = 0
    /\ srv_recv = <<>>
    /\ events = <<>>
    /\ delivered = <<>>

\* the state after connect() has spawned the thread and returned its future
Connecting ==
    /\ ws_thread = "connecting"
    /\ sender_rx = <<>>
    /\ event_rx = <<>>
    /\ connect_fut = "WaitForSender"
    /\ probe_event = Event("None", NoPacket)
    /\ ws_out = <<>>
    /\ tx = "Absent"
    /\ rx = "Absent"
    /\ yielded = <<>>
    /\ ws_calls = <<>>
    /\ frames = 0
    /\ undecoded = 0

\* the thread of the WebSocket and the future of connect()
NextProbe ==
    \/ ws_connect_failed
    \/ ws_connect_factory
    \/ Handler_on_message
    \/ Handler_on_error
    \/ Handler_on_close
    \/ WaitForSender_poll
    \/ WaitForHandshake_poll

NextWebSocket ==
    \/ NextProbe
    \/ ReceiverPoll
    \/ SenderSend
    \/ SenderClose

\* a program that uses the WebSocket transport directly
InitWebSocket ==
    /\ api = "WebSocket"
    /\ NoPolling
    /\ NoUnified
    /\ Client_new
    /\ NoCodec
    /\ Connecting

SpecWebSocket == InitWebSocket /\ [][NextWebSocket]_vars

\* the same program with its scheduling: the reactor polls the future of
\* connect() whenever a poll can make progress, and the thread of the WebSocket
\* goes on connecting; when, and whether, the server speaks is up to the server
SpecProbe ==
    /\ InitWebSocket /\ [][NextWebSocket]_vars
    /\ WF_vars(WaitForSender_poll)
    /\ WF_vars(WaitForHandshake_poll)
    /\ WF_vars(ws_connect_failed \/ ws_connect_factory)

\* ------------------------------------------------------------------------
\* The unified connection and its upgrade coordinator
\* ------------------------------------------------------------------------
Get(st, tag, packets, elapsed) ==
    [st |-> st, tag |-> tag, packets |-> packets, elapsed |-> elapsed]

NoGet == Get("none", "Ok", <<>>, 0)

\* the GET launched in Empty
LaunchedGet == Get("pending", "Ok", <<>>, 0)

Post(id, packets) == [id |-> id, packets |-> packets]

\* the POST that carries the Upgrade packet of the coordinator
UpgradePost == Post(0, <<empty("Upgrade")>>)

UniUnchanged == UNCHANGED <<pollVars, wsVars, clientVars, codecVars>>

\* the server queues one more packet for the polling transport
server_queue ==
    /\ p_state # "none" /\ made < MaxQueued
    /\ \E opcode \in {"Message", "Close"} :
          srv_q' = Append(srv_q, with_str(opcode, <<made + 1>>))
    /\ made' = made + 1
    /\ UNCHANGED <<p_state, p_iter, get, upgrade_seen, u_inflight, u_posted, slots,
                   coord, u_closed, u_pair, u_term, u_out, u_calls>>
    /\ UniUnchanged

\* the server answers the GET it holds with the packets it has queued
get_response ==
    /\ get.st = "pending" /\ srv_q # <<>>
    /\ get' = Get("done", "Ok", srv_q, 0)
    /\ srv_q' = <<>>
    /\ UNCHANGED <<p_state, p_iter, made, upgrade_seen, u_inflight, u_posted, slots,
                   coord, u_closed, u_pair, u_term, u_out, u_calls>>
    /\ UniUnchanged

\* the GET fails: it times out, at the end of the ping window or beyond it, or
\* another error ends it
get_error ==
    /\ get.st = "pending"
    /\ \/ \E d \in PingTimeout..(PingTimeout + 1) : get' = Get("done", "TimedOut", <<>>, d)
       \/ get' = Get("done", "Io", <<>>, 0)
    /\ UNCHANGED <<p_state, p_iter, srv_q, made, upgrade_seen, u_inflight, u_posted,
                   slots, coord, u_closed, u_pair, u_term, u_out, u_calls>>
    /\ UniUnchanged

\* a timeout within the ping window is no data yet, not a failure
silent_repoll(g) == g.tag = "TimedOut" /\ g.elapsed <= PingTimeout

\* a POST of the polling sender reaches the server, or fails on its way
post_done(p) ==
    /\ p \in u_inflight
    /\ u_inflight' = u_inflight \ {p}
    /\ \E ok \in BOOLEAN :
          /\ u_posted' = IF ok THEN Append(u_posted, p.packets) ELSE u_posted
          /\ IF p = UpgradePost
             THEN /\ coord' = IF ok THEN "upgraded" ELSE "abandoned"
                  /\ upgrade_seen' = IF ok THEN [seen |-> TRUE, frames |-> frames, made |-> made]
                                     ELSE upgrade_seen
                  /\ u_calls' = u_calls
             ELSE /\ u_calls' = Resolve(u_calls, {p.id}, IF ok THEN "ok" ELSE "failed")
                  /\ UNCHANGED <<coord, upgrade_seen>>
    /\ UNCHANGED <<p_state, p_iter, get, srv_q, made, slots, u_closed, u_pair, u_term, u_out>>
    /\ UniUnchanged

\* the probe task, once connect() is ready: Upgrade goes out through the
\* polling sender
coord_upgrade ==
    /\ coord = "probing" /\ connect_fut = "Ready"
    /\ u_inflight' = u_inflight \cup {UpgradePost}
    /\ coord' = "upgrading"
    /\ UNCHANGED <<p_state, p_iter, get, srv_q, made, upgrade_seen, u_posted, slots,
                   u_closed, u_pair, u_term, u_out, u_calls>>
    /\ UniUnchanged

\* the probe task, once connect() has failed: the error is swallowed
coord_failed ==
    /\ coord = "probing" /\ connect_fut = "Failed"
    /\ coord' = "abandoned"
    /\ UNCHANGED <<p_state, p_iter, get, srv_q, made, upgrade_seen, u_inflight, u_posted,
                   slots, u_closed, u_pair, u_term, u_out, u_calls>>
    /\ UniUnchanged

\* the installation without its test of the weak references
coord_install_without_weak_test ==
    /\ coord = "upgraded"
    /\ slots' = "Populated" /\ coord' = "installed"
    /\ UNCHANGED <<p_state, p_iter, get, srv_q, made, upgrade_seen, u_inflight, u_posted,
                   u_closed, u_pair, u_term, u_out, u_calls>>
    /\ UniUnchanged

\* the probe task, once Upgrade is sent: the pair goes into the slots through
\* the weak references, unless the parent has been dropped
coord_install ==
    /\ coord = "upgraded"
    /\ IF u_pair = "alive"
       THEN slots' = "Populated" /\ coord' = "installed"
       ELSE slots' = slots /\ coord' = "abandoned"
    /\ UNCHANGED <<p_state, p_iter, get, srv_q, made, upgrade_seen, u_inflight, u_posted,
                   u_closed, u_pair, u_term, u_out, u_calls>>
    /\ UniUnchanged

\* one poll of the polling receiver: the close channel is checked first, then
\* the state decides
polling_receiver_poll ==
    LET relaunch == [tag |-> "NotReady", packet |-> NoPacket, state |-> "Waiting",
                     iter |-> <<>>, get |-> LaunchedGet]
        ended(tag) == [tag |-> tag, packet |-> NoPacket, state |-> "Closed",
                       iter |-> <<>>, get |-> NoGet]
        yield(iter) == [tag |-> "Packet", packet |-> Head(iter),
                        state |-> IF Head(iter).opcode = "Close" THEN "Closed" ELSE "Ready",
                        iter |-> IF Head(iter).opcode = "Close" THEN <<>> ELSE Tail(iter),
                        get |-> NoGet]
    IN  IF u_closed \/ p_state = "Closed" THEN ended("End")
        ELSE IF p_state = "Empty" THEN relaunch
        ELSE IF p_state = "Ready"
        THEN IF p_iter # <<>> THEN yield(p_iter) ELSE relaunch
        ELSE IF get.st = "pending"
        THEN [tag |-> "NotReady", packet |-> NoPacket, state |-> "Waiting",
              iter |-> <<>>, get |-> get]
        ELSE IF get.tag = "Ok" THEN yield(get.packets)
        ELSE IF silent_repoll(get) THEN relaunch
        ELSE ended("Err")

\* UnifiedReceiver.poll, polling first: what polling yields unless it has no
\* data yet and the slot is populated, and then what the WebSocket yields
unified_poll ==
    LET p == polling_receiver_poll
        w == Receiver_poll(rx, event_rx)
    IN  IF u_term
        THEN [tag |-> "End", via |-> "none", packet |-> NoPacket, p |-> p, polled_ws |-> FALSE]
        ELSE IF p.tag = "NotReady" /\ slots = "Populated"
        THEN [tag |-> w.tag, via |-> "websocket", packet |-> w.packet, p |-> p,
              polled_ws |-> TRUE]
        ELSE [tag |-> p.tag, via |-> "polling", packet |-> p.packet, p |-> p,
              polled_ws |-> FALSE]

\* the consumer polls the unified receiver; a poll that changes nothing is left out
UnifiedPoll ==
    /\ u_pair = "alive" /\ rx # "Panicked"
    /\ LET r == unified_poll
           w == Receiver_poll(rx, event_rx)
           last == r.tag \in {"End", "Err", "Panic"}
                      \/ (r.tag = "Packet" /\ r.packet.opcode = "Close")
       IN  /\ ~u_term
           /\ p_state' = r.p.state
           /\ p_iter' = r.p.iter
           /\ get' = r.p.get
           /\ IF r.polled_ws
              THEN rx' = w.field /\ event_rx' = w.q
              ELSE UNCHANGED <<rx, event_rx>>
           /\ u_term' = last
           /\ u_out' = IF r.tag = "NotReady" THEN u_out
                       ELSE Append(u_out, [tag |-> r.tag, via |-> r.via, packet |-> r.packet])
           /\ (r.tag = "NotReady" => <<p_state', get'>> # <<p_state, get>>)
    /\ UNCHANGED <<srv_q, made, upgrade_seen, u_inflight, u_posted, slots, coord, u_closed,
                   u_pair, u_calls>>
    /\ UNCHANGED <<ws_thread, sender_rx, connect_fut, probe_event, ws_out, tx, yielded,
                   ws_calls, frames, undecoded, pollVars, clientVars, codecVars>>

\* a send() of n packets made on the unified sender, and what became of it
SendCall(status, n) == [kind |-> "Send", status |-> status, n |-> n]

\* UnifiedSender.send: over the WebSocket when the slot is populated, over
\* polling otherwise; InvalidState once close has been called
UnifiedSend ==
    /\ u_pair = "alive" /\ Len(u_calls) < MaxUnifiedCalls
    /\ \E n \in 1..MaxBatch :
          LET c == Len(u_calls) + 1
              packets == UserPackets(c, n)
              w == Sender_send(ws_out, packets)
          IN  IF u_closed
              THEN /\ u_calls' = Append(u_calls, SendCall("invalid_state", n))
                   /\ UNCHANGED <<ws_out, u_inflight>>
              ELSE IF slots = "Populated"
              THEN /\ u_calls' = Append(u_calls, SendCall(IF w.ok THEN "ok" ELSE "io_other", n))
                   /\ ws_out' = w.out
                   /\ UNCHANGED u_inflight
              ELSE /\ u_calls' = Append(u_calls, SendCall("pending", n))
                   /\ u_inflight' = u_inflight \cup {Post(c, packets)}
                   /\ UNCHANGED ws_out
    /\ UNCHANGED <<p_state, p_iter, get, srv_q, made, upgrade_seen, u_posted, slots, coord,
                   u_closed, u_pair, u_term, u_out>>
    /\ UNCHANGED <<ws_thread, sender_rx, event_rx, connect_fut, probe_event, tx, rx, yielded,
                   ws_calls, frames, undecoded, pollVars, clientVars, codecVars>>

\* UnifiedSender.close: the close channel is signalled; the WebSocket is closed
\* when its slot is populated, the polling transport otherwise
UnifiedClose ==
    /\ u_pair = "alive" /\ ~u_closed /\ Len(u_calls) < MaxUnifiedCalls
    /\ u_closed' = TRUE
    /\ LET c == Len(u_calls) + 1
           w == Sender_close(ws_out, "Client")
       IN  IF slots = "Populated" /\ tx = "Some"
           THEN /\ u_calls' = Append(u_calls, NewCall("Close", IF w.ok THEN "ok" ELSE "io_other"))
                /\ ws_out' = w.out
                /\ ws_thread' = IF w.closing /\ ws_thread = "open" THEN "closing" ELSE ws_thread
                /\ tx' = "Consumed"
                /\ UNCHANGED u_inflight
           ELSE /\ u_calls' = Append(u_calls, NewCall("Close", "pending"))
                /\ u_inflight' = u_inflight \cup {Post(c, <<empty("Close")>>)}
                /\ UNCHANGED <<ws_out, ws_thread, tx>>
    /\ UNCHANGED <<p_state, p_iter, get, srv_q, made, upgrade_seen, u_posted, slots, coord,
                   u_pair, u_term, u_out>>
    /\ UNCHANGED <<sender_rx, event_rx, connect_fut, probe_event, rx, yielded, ws_calls,
                   frames, undecoded, pollVars, clientVars, codecVars>>

\* the unified pair is dropped before the probe task has installed anything
UnifiedDrop ==
    /\ u_pair = "alive" /\ slots = "Empty"
    /\ u_pair' = "dropped"
    /\ UNCHANGED <<p_state, p_iter, get, srv_q, made, upgrade_seen, u_inflight, u_posted,
                   slots, coord, u_closed, u_term, u_out, u_calls>>
    /\ UniUnchanged

\* the state in which connect returns the unified pair: polling is set up, the
\* slots are empty and the probe task has started its connect()
InitUnified ==
    /\ api = "Unified"
    /\ NoPolling
    /\ Client_new
    /\ NoCodec
    /\ Connecting
    /\ p_state = "Empty"
    /\ p_iter = <<>>
    /\ get = NoGet
    /\ srv_q = <<>>
    /\ made = 0
    /\ upgrade_seen = [seen |-> FALSE, frames |-> 0, made |-> 0]
    /\ u_inflight = {}
    /\ u_posted = <<>>
    /\ slots = "Empty"
    /\ coord = "probing"
    /\ u_closed = FALSE
    /\ u_pair = "alive"
    /\ u_term = FALSE
    /\ u_out = <<>>
    /\ u_calls = <<>>

\* the probe task, the server and the consumer of the unified receiver
NextUpgrade ==
    \/ NextProbe
    \/ server_queue
    \/ get_response
    \/ get_error
    \/ \E p \in u_inflight : post_done(p)
    \/ coord_upgrade
    \/ coord_failed
    \/ coord_install
    \/ UnifiedPoll
    \/ UnifiedDrop

\* a unified connection whose sender the user leaves alone
SpecUpgrade == InitUnified /\ [][NextUpgrade]_vars

NextUnified ==
    \/ NextUpgrade
    \/ UnifiedSend
    \/ UnifiedClose

SpecUnified == InitUnified /\ [][NextUnified]_vars

\* ------------------------------------------------------------------------
\* The Client (client.rs) and Connection::connect
\* ------------------------------------------------------------------------
\* the record of a connect call
ConnectCall(at, seen, result) == [pc |-> at, seen |-> seen, result |-> result]

\* Client::connect without its test of the state
Client_connect_unchecked(i) ==
    /\ api = "Client" /\ cl_connects[i].pc = "idle"
    /\ \A h \in 1..(i - 1) : cl_connects[h].pc # "idle"
    /\ cl_connects' = [cl_connects EXCEPT ![i] = ConnectCall("handshake", cl_state, "none")]
    /\ UNCHANGED <<cl_state, cl_transport, cl_polling>>
    /\ UNCHANGED <<pollVars, wsVars, uniVars, codecVars>>

\* Client::connect, up to the handshake request of Polling::new: false at once
\* when the state is Connected
Client_connect(i) ==
    /\ api = "Client" /\ cl_connects[i].pc = "idle"
    /\ \A h \in 1..(i - 1) : cl_connects[h].pc # "idle"
    /\ cl_connects' = [cl_connects EXCEPT ![i] =
                          IF cl_state = "Connected"
                          THEN ConnectCall("done", cl_state, "false")
                          ELSE ConnectCall("handshake", cl_state, "none")]
    /\ UNCHANGED <<cl_state, cl_transport, cl_polling>>
    /\ UNCHANGED <<pollVars, wsVars, uniVars, codecVars>>

\* Polling::new: the handshake ends; on success Polling::create spawns the
\* thread of the transport, on failure the future of connect fails
Polling_new(i) ==
    /\ cl_connects[i].pc = "handshake"
    /\ \E ok \in BOOLEAN :
          IF ok
          THEN /\ cl_polling' = [cl_polling EXCEPT ![i].pc = "spawned"]
               /\ cl_connects' = [cl_connects EXCEPT ![i].pc = "created"]
          ELSE /\ cl_polling' = cl_polling
               /\ cl_connects' = [cl_connects EXCEPT ![i].pc = "done", ![i].result = "error"]
    /\ UNCHANGED <<cl_state, cl_transport>>
    /\ UNCHANGED <<pollVars, wsVars, uniVars, codecVars>>

\* the closure Connection::connect chains to the handshake: the new transport
\* replaces the stored one, which is closed
Connection_connect(i) ==
    /\ cl_connects[i].pc = "created"
    /\ cl_transport' = i
    /\ cl_polling' = IF cl_transport = 0 THEN cl_polling
                     ELSE [cl_polling EXCEPT ![cl_transport].close = TRUE,
                                             ![cl_transport].by = i]
    /\ cl_connects' = [cl_connects EXCEPT ![i].pc = "done", ![i].result = "true"]
    /\ UNCHANGED cl_state
    /\ UNCHANGED <<pollVars, wsVars, uniVars, codecVars>>

\* Client::disconnect: when the state is Connected, Connection::disconnect takes
\* the transport, if there is one, and closes it
Client_disconnect ==
    /\ api = "Client" /\ cl_state = "Connected" /\ cl_transport # 0
    /\ cl_polling' = [cl_polling EXCEPT ![cl_transport].close = TRUE]
    /\ cl_transport' = 0
    /\ UNCHANGED <<cl_state, cl_connects>>
    /\ UNCHANGED <<pollVars, wsVars, uniVars, codecVars>>

\* handle_polling of transport i starts: Connect goes to the closure of
\* create_connection, which sets the state
polling_Connect(i) ==
    /\ cl_polling[i].pc = "spawned"
    /\ cl_polling' = [cl_polling EXCEPT ![i].pc = "running"]
    /\ cl_state' = "Connected"
    /\ UNCHANGED <<cl_transport, cl_connects>>
    /\ UNCHANGED <<pollVars, wsVars, uniVars, codecVars>>

\* handle_polling of transport i takes the Close event: Disconnect goes to the
\* closure and the thread returns
polling_Close(i) ==
    /\ cl_polling[i].pc = "running" /\ cl_polling[i].close
    /\ cl_polling' = [cl_polling EXCEPT ![i].pc = "returned"]
    /\ cl_state' = "Disconnected"
    /\ UNCHANGED <<cl_transport, cl_connects>>
    /\ UNCHANGED <<pollVars, wsVars, uniVars, codecVars>>

\* the GET of transport i fails: Error goes to the closure and the thread
\* returns; or the server sends a Close packet and the thread goes on
polling_ends(i) ==
    /\ cl_polling[i].pc = "running"
    /\ \E returns \in BOOLEAN :
          cl_polling' = [cl_polling EXCEPT ![i].pc = IF returns THEN "returned" ELSE @]
    /\ cl_state' = "Disconnected"
    /\ UNCHANGED <<cl_transport, cl_connects>>
    /\ UNCHANGED <<pollVars, wsVars, uniVars, codecVars>>

\* a Client made by Client::new
InitClient ==
    /\ api = "Client"
    /\ NoPolling
    /\ NoWebSocket
    /\ NoUnified
    /\ Client_new
    /\ NoCodec

NextClient ==
    \/ \E i \in 1..MaxConnects : Client_connect(i)
    \/ \E i \in 1..MaxConnects : Polling_new(i)
    \/ \E i \in 1..MaxConnects : Connection_connect(i)
    \/ Client_disconnect
    \/ \E i \in 1..MaxConnects : polling_Connect(i)
    \/ \E i \in 1..MaxConnects : polling_Close(i)
    \/ \E i \in 1..MaxConnects : polling_ends(i)

SpecClient == InitClient /\ [][NextClient]_vars

\* ------------------------------------------------------------------------
\* Calls of the codec (packet.rs) and of the HTTP helpers (transports/polling.rs)
\* ------------------------------------------------------------------------
\* the status codes a server answers with; hyper returns Ok(response) for each
Statuses == {200, 204, 404, 500}

\* rustc_serialize::json::decode::<Config>, an opaque service: the text "{s}"
\* stands for a JSON object that decodes into a Config whose sid is s, any
\* other text for one that does not
decode(str) ==
    IF Len(str) = 3 /\ str[1] = 123 /\ str[3] = 125
    THEN [ok |-> TRUE, sid |-> str[2]]
    ELSE [ok |-> FALSE, sid |-> 0]

\* poll, once the GET has returned: a response of any status is read with
\* from_reader_all, an error of the request is returned
poll(status, body) ==
    IF status = 0 THEN [ok |-> FALSE, kind |-> "Http", packets |-> <<>>]
    ELSE from_reader_all(body, <<>>)

\* connect_async: the payload of packets[0] is decoded; indexing an empty list
\* panics in the closure, which drops the Complete of the future
connect_async(status, body) ==
    LET and_then(res) ==
            IF ~res.ok THEN [ok |-> FALSE, kind |-> res.kind, sid |-> 0]
            ELSE IF res.packets = <<>> THEN [ok |-> FALSE, kind |-> "panic", sid |-> 0]
            ELSE IF res.packets[1].payload.kind = "Binary"
            THEN [ok |-> FALSE, kind |-> "InvalidData", sid |-> 0]
            ELSE LET cfg == decode(res.packets[1].payload.data)
                 IN  IF cfg.ok THEN [ok |-> TRUE, kind |-> "none", sid |-> cfg.sid]
                     ELSE [ok |-> FALSE, kind |-> "Decode", sid |-> 0]
    IN  and_then(poll(status, body))

\* send, once the POST has returned: Ok(_) => Ok(()), whatever the status
send_response(status) ==
    IF status = 0 THEN [ok |-> FALSE, kind |-> "Http"] ELSE [ok |-> TRUE, kind |-> "none"]

\* the packets a caller builds: every opcode, with a text of at most MaxText
\* characters of one to four bytes, or with at most MaxData octets
Packets ==
    LET Texts == UNION {[1..n -> {58, 233, 8364, 128512}] : n \in 0..MaxText}
        Datas == UNION {[1..n -> {0, 255}] : n \in 0..MaxData}
    IN  {Packet(o, String(t)) : o \in OpCode, t \in Texts}
            \cup {Packet(o, Binary(d)) : o \in OpCode, d \in Datas}

\* segments of the bodies a server answers with
Segments ==
    { <<49, 58, 54>>,                         \* 1:6      Noop
      <<52, 58, 48, 123, 97, 125>>,           \* 4:0{a}   Open, a session descriptor
      <<52, 58, 48, 123, 98, 125>>,           \* 4:0{b}   Open, another one
      <<50, 58, 52, 226, 130, 172>>,          \* 2:4(euro sign): two characters, four bytes
      <<50, 58, 98, 52>>,                     \* 2:b4     Message, no octets
      <<54, 58, 98, 52, 47, 119, 61, 61>>,    \* 6:b4/w== Message, one octet
      <<53, 58, 52, 97>>,                     \* 5:4a     shorter than announced
      <<48, 58>>,                             \* 0:       no packet text
      <<49, 54>>,                             \* 16       no colon
      <<120, 58, 54>>,                        \* x:6      bad length prefix
      <<255, 58, 54>>,                        \* length prefix that is not UTF-8
      <<49, 58, 57>>,                         \* 1:9      bad opcode
      <<51, 58, 98, 52, 33>>,                 \* 3:b4!    bad base64
      <<49, 58, 255>>,                        \* text that is not UTF-8
      <<55>>,                                 \* 7        one digit, no colon
      <<120, 54>> }                           \* x6       no digit first, no colon

\* the strings handed to the decoders of one packet and of one opcode
Texts ==
    { <<>>,
      <<98>>,                                 \* b        nothing after the indicator
      <<98, 52>>,                             \* b4       Message, no octets
      <<98, 52, 47, 119, 61, 61>>,            \* b4/w==   Message, one octet
      <<98, 52, 33>>,                         \* b4!      bad base64
      <<98, 55>>,                             \* b7       bad opcode
      <<98, 120>>,                            \* bx       no digit
      <<98, 8364>>,                           \* b, euro sign
      <<52, 97>>,                             \* 4a       Message
      <<52, 8364>>,                           \* 4, euro sign
      <<48>>, <<49>>, <<50>>, <<51>>, <<52>>, <<53>>, <<54>>,
      <<55>>, <<56>>, <<57>>,                 \* 7 8 9    no opcodes
      <<120>>, <<8364>>, <<1635>>,            \* x, euro sign, ARABIC-INDIC DIGIT THREE
      <<48, 54>>,                             \* 06
      <<43, 52>>,                             \* +4
      <<50, 53, 54>>,                         \* 256
      <<50, 54, 50>> }                        \* 262, which is 6 modulo 256

\* a caller holds at most MaxList packets to write, or a response has arrived
\* whose body is made of at most two segments, or a string is to be parsed
InitCodec ==
    /\ api = "Codec"
    /\ NoPolling
    /\ NoWebSocket
    /\ NoUnified
    /\ Client_new
    /\ c_ret = [fn |-> "none", arg |-> "none", ok |-> TRUE, kind |-> "none",
                packets |-> <<>>, n |-> 0]
    /\ \/ /\ c_pc = "args"
          /\ c_packets \in UNION {[1..n -> Packets] : n \in 0..MaxList}
          /\ c_body = <<>>
          /\ c_status = 0
       \/ /\ c_pc = "response"
          /\ c_packets = <<>>
          /\ \/ c_status = 0 /\ c_body = <<>>
             \/ /\ c_status \in Statuses
                /\ \E s1, s2 \in Segments \cup {<<>>} : c_body = s1 \o s2
       \/ /\ c_pc = "text"
          /\ c_packets = <<>>
          /\ c_status = 0
          /\ \E text \in Texts : c_body = as_bytes(text)

NextCodec ==
    \* write_to into a buffer, then Packet::from_reader on it
    \/ /\ c_pc = "args" /\ Len(c_packets) = 1
       /\ c_body' = as_bytes(to_string(c_packets[1]))
       /\ LET ret(r) == [fn |-> "from_reader", arg |-> "none", ok |-> r.ok, kind |-> r.kind,
                         packets |-> IF r.ok THEN <<r.packet>> ELSE <<>>, n |-> 0]
          IN  c_ret' = ret(from_reader(c_body'))
       /\ c_pc' = "done"
       /\ UNCHANGED <<c_packets, c_status, pollVars, wsVars, uniVars, clientVars>>
    \* Packet::compute_length
    \/ /\ c_pc = "args" /\ Len(c_packets) = 1
       /\ \E as_chars \in BOOLEAN :
            c_ret' = [fn |-> "compute_length", arg |-> IF as_chars THEN "chars" ELSE "bytes",
                      ok |-> TRUE, kind |-> "none", packets |-> <<>>,
                      n |-> compute_length(c_packets[1], as_chars)]
       /\ c_pc' = "done"
       /\ UNCHANGED <<c_packets, c_body, c_status, pollVars, wsVars, uniVars, clientVars>>
    \* Packet::compute_payload_length
    \/ /\ c_pc = "args" /\ Len(c_packets) = 1
       /\ \E as_chars \in BOOLEAN :
            c_ret' = [fn |-> "compute_payload_length",
                      arg |-> IF as_chars THEN "chars" ELSE "bytes",
                      ok |-> TRUE, kind |-> "none", packets |-> <<>>,
                      n |-> compute_payload_length(c_packets[1], as_chars)]
       /\ c_pc' = "done"
       /\ UNCHANGED <<c_packets, c_body, c_status, pollVars, wsVars, uniVars, clientVars>>
    \* Packet::write_payload_to for every packet, back to back into one buffer
    \/ /\ c_pc = "args"
       /\ LET buf[i \in 0..Len(c_packets)] ==
                  IF i = 0 THEN <<>> ELSE buf[i - 1] \o write_payload_to(c_packets[i])
          IN  /\ c_body' = buf[Len(c_packets)]
              /\ c_ret' = [fn |-> "write_payload_to", arg |-> "none", ok |-> TRUE,
                           kind |-> "none", packets |-> <<>>, n |-> Len(c_body')]
       /\ c_pc' = "written"
       /\ UNCHANGED <<c_packets, c_status, pollVars, wsVars, uniVars, clientVars>>
    \* Packet::from_reader_payload on the buffer or on the body
    \/ /\ c_pc \in {"written", "response"} /\ (c_pc = "response" => c_status # 0)
       /\ LET read(r) ==
                  /\ c_ret' = [fn |-> "from_reader_payload", arg |-> c_pc, ok |-> r.res.ok,
                               kind |-> r.res.kind,
                               packets |-> IF r.res.ok THEN <<r.res.packet>> ELSE <<>>,
                               n |-> Len(c_body) - Len(r.rest)]
                  /\ c_body' = r.rest
                  /\ c_pc' = IF r.res.ok THEN c_pc ELSE "done"
          IN  read(from_reader_payload(c_body))
       /\ UNCHANGED <<c_packets, c_status, pollVars, wsVars, uniVars, clientVars>>
    \* Packet::from_reader_all on the buffer or on the body
    \/ /\ c_pc \in {"written", "response"} /\ (c_pc = "response" => c_status # 0)
       /\ LET ret(r) == [fn |-> "from_reader_all", arg |-> c_pc, ok |-> r.ok,
                         kind |-> r.kind, packets |-> r.packets, n |-> 0]
          IN  c_ret' = ret(from_reader_all(c_body, <<>>))
       /\ c_pc' = "done"
       /\ UNCHANGED <<c_packets, c_body, c_status, pollVars, wsVars, uniVars, clientVars>>
    \* poll: the GET has returned
    \/ /\ c_pc = "response"
       /\ LET ret(r) == [fn |-> "poll", arg |-> "none", ok |-> r.ok, kind |-> r.kind,
                         packets |-> r.packets, n |-> 0]
          IN  c_ret' = ret(poll(c_status, c_body))
       /\ c_pc' = "done"
       /\ UNCHANGED <<c_packets, c_body, c_status, pollVars, wsVars, uniVars, clientVars>>
    \* connect_async: the GET of the handshake has returned
    \/ /\ c_pc = "response"
       /\ LET ret(r) == [fn |-> "connect_async", arg |-> "none", ok |-> r.ok,
                         kind |-> r.kind, packets |-> <<>>, n |-> r.sid]
          IN  c_ret' = ret(connect_async(c_status, c_body))
       /\ c_pc' = "done"
       /\ UNCHANGED <<c_packets, c_body, c_status, pollVars, wsVars, uniVars, clientVars>>
    \* send: the packets are written and posted, and the POST returns
    \/ /\ c_pc = "written" /\ c_ret.fn = "write_payload_to"
       /\ \E status \in Statuses \cup {0} :
            /\ c_status' = status
            /\ LET r == send_response(status)
               IN  c_ret' = [fn |-> "send", arg |-> "none", ok |-> r.ok, kind |-> r.kind,
                             packets |-> <<>>, n |-> 0]
       /\ c_pc' = "done"
       /\ UNCHANGED <<c_packets, c_body, pollVars, wsVars, uniVars, clientVars>>
    \* str::parse::<Packet>, which is Packet::from_str
    \/ /\ c_pc = "text"
       /\ LET ret(r) == [fn |-> "from_str", arg |-> "text", ok |-> r.ok, kind |-> r.kind,
                         packets |-> IF r.ok THEN <<r.packet>> ELSE <<>>, n |-> 0]
          IN  c_ret' = ret(from_str(from_utf8(c_body).data))
       /\ c_pc' = "done"
       /\ UNCHANGED <<c_packets, c_body, c_status, pollVars, wsVars, uniVars, clientVars>>
    \* OpCode::from_str; the opcode is returned as the empty packet of it
    \/ /\ c_pc = "text"
       /\ LET ret(r) == [fn |-> "OpCode::from_str", arg |-> "text", ok |-> r.ok,
                         kind |-> r.kind,
                         packets |-> IF r.ok THEN <<empty(r.opcode)>> ELSE <<>>, n |-> 0]
          IN  c_ret' = ret(OpCode_from_str(from_utf8(c_body).data))
       /\ c_pc' = "done"
       /\ UNCHANGED <<c_packets, c_body, c_status, pollVars, wsVars, uniVars, clientVars>>
    \* OpCode::from_char of the character of a string of one
    \/ /\ c_pc = "text" /\ Len(from_utf8(c_body).data) = 1
       /\ LET value == from_utf8(c_body).data[1]
              ret(r) == [fn |-> "OpCode::from_char", arg |-> "text", ok |-> r.ok,
                         kind |-> IF r.ok THEN "none" ELSE "InvalidData",
                         packets |-> IF r.ok THEN <<empty(r.opcode)>> ELSE <<>>,
                         n |-> value]
          IN  c_ret' = ret(from_char(value))
       /\ c_pc' = "done"
       /\ UNCHANGED <<c_packets, c_body, c_status, pollVars, wsVars, uniVars, clientVars>>
    \* OpCode::from_u8 of any u8
    \/ /\ c_pc = "text" /\ c_body = <<>>
       /\ \E value \in 0..255 :
            LET ret(r) == [fn |-> "OpCode::from_u8", arg |-> "none", ok |-> r.ok,
                           kind |-> IF r.ok THEN "none" ELSE "InvalidData",
                           packets |-> IF r.ok THEN <<empty(r.opcode)>> ELSE <<>>,
                           n |-> value]
            IN  c_ret' = ret(from_u8(value))
       /\ c_pc' = "done"
       /\ UNCHANGED <<c_packets, c_body, c_status, pollVars, wsVars, uniVars, clientVars>>

SpecCodec == InitCodec /\ [][NextCodec]_vars

\* ------------------------------------------------------------------------
\* Properties
\* ------------------------------------------------------------------------
\* the body of a POST made for a send() call, and the number of that call
IsUserBody(body) == body # <<>> /\ body[1].opcode = "Message"

CallOf(body) == body[1].payload.data[1]

\* C1: the packets handed to the polling transport reach the server in the
\* order they were submitted: every POST body is the list of one send() call in
\* list order, and the body of an earlier call arrives before that of a later one.
C1_SubmittedOrder ==
    /\ \A i \in DOMAIN srv_recv :
          IsUserBody(srv_recv[i]) =>
              srv_recv[i] = UserPackets(CallOf(srv_recv[i]), Len(srv_recv[i]))
    /\ \A i, j \in DOMAIN srv_recv :
          (i < j /\ IsUserBody(srv_recv[i]) /\ IsUserBody(srv_recv[j]))
              => CallOf(srv_recv[i]) < CallOf(srv_recv[j])

\* the server's Close packet has been passed to the callback of the transport
IsServerClose(e) == e.ev = "Message" /\ e.packet.opcode = "Close"

ServerCloseSeen == \E i \in DOMAIN events : IsServerClose(events[i])

\* a GET is queued or in flight
GetInFlight == (\E i \in DOMAIN jobs : jobs[i].kind = "poll")
                   \/ (\E j \in running : j.kind = "poll")

\* C3: once the server's Close packet has been surfaced, no packet is passed on
\* after it and the receive side is closed: no further GET is issued.
C3_CloseIsLast ==
    /\ \A i, j \in DOMAIN events :
          (i < j /\ IsServerClose(events[i]))
              => ~(events[j].ev = "Message" /\ events[j].packet.opcode \in {"Message", "Pong"})
    /\ ServerCloseSeen => (~GetInFlight /\ pc # "loop")

\* C4: once the Receiver has yielded an error or the end of the stream, every
\* later poll yields the end of the stream.
C4_TerminalAbsorbing ==
    \A i, j \in DOMAIN yielded :
        (i < j /\ yielded[i].tag \in {"End", "Err"}) => yielded[j].tag = "End"

\* C5: a send made after close has been called fails with InvalidState and
\* transmits nothing.
C5_SendAfterClose ==
    \A c, d \in DOMAIN calls :
        (c < d /\ calls[c].kind \in {"Close", "disconnect"} /\ calls[d].kind = "Send")
            => /\ calls[d].status \in {"pending", "invalid_state"}
               /\ \A i \in DOMAIN srv_recv :
                     IsUserBody(srv_recv[i]) => CallOf(srv_recv[i]) # d

\* close has been signalled: a Close event waits in the channel of the thread
CloseSignalled == \E i \in DOMAIN ev_rx : ev_rx[i].kind = "Close"

\* C6: from the moment close is signalled, the receive loop passes no further
\* packet to the consumer.
C6_NoPacketAfterCloseSignal ==
    [][CloseSignalled =>
          \A i \in DOMAIN events' : i > Len(events) => events'[i].ev # "Message"]_vars

\* C7: when the handle is dropped and close() was never called, the connection
\* is not torn down: no Close packet is sent and no Disconnect is reported.
C7_DropKeepsConnection ==
    (\A c \in DOMAIN calls : calls[c].kind # "Close")
        => /\ \A i \in DOMAIN srv_recv : srv_recv[i] # <<empty("Close")>>
           /\ \A i \in DOMAIN events : events[i].ev # "Disconnect"

\* C8: a timeout of the GET is surfaced only when the time elapsed since the
\* poll started exceeds ping_timeout.
C8_TimeoutSurfacedOnlyBeyond ==
    \A i \in DOMAIN events :
        (events[i].ev = "Error" /\ events[i].err = "TimedOut")
            => events[i].elapsed > PingTimeout

\* the first event is a Pong whose payload is the string "probe"
StringProbeAnswer(e) == e.tag = "Packet" /\ e.packet = with_str("Pong", HANDSHAKE_PAYLOAD)

\* the first event is a Pong whose payload reads "probe": the string, or the
\* bytes of its UTF-8 form
ProbeAnswer(e) ==
    /\ e.tag = "Packet"
    /\ e.packet.opcode = "Pong"
    /\ e.packet.payload \in {String(HANDSHAKE_PAYLOAD), Binary(HANDSHAKE_PAYLOAD)}

\* the future of connect() has resolved
ProbeDone == connect_fut \in {"Ready", "Failed"}

\* C9, as stated: the probe succeeds exactly when the first event is a Pong with
\* the string payload "probe", and no pair is handed out otherwise.
C9_StringProbeOnly ==
    /\ ProbeDone => (connect_fut = "Ready" <=> StringProbeAnswer(probe_event))
    /\ connect_fut # "Ready" => (tx = "Absent" /\ rx = "Absent")

\* C9, amended: the probe succeeds exactly when the first event is a Pong whose
\* payload reads "probe", as a string or as binary data, and no pair is handed
\* out otherwise.
C9_ProbeAnswerOnly ==
    /\ ProbeDone => (connect_fut = "Ready" <=> ProbeAnswer(probe_event))
    /\ connect_fut # "Ready" => (tx = "Absent" /\ rx = "Absent")

\* the probe has succeeded on a binary Pong
C9_Witness ==
    /\ connect_fut = "Ready"
    /\ probe_event.packet.payload.kind = "Binary"
    /\ tx = "Some" /\ rx = "Some"

\* a packet the server queued for polling before the Upgrade packet reached it
QueuedBeforeUpgrade(n) == upgrade_seen.seen /\ n \in 1..upgrade_seen.made

\* a frame the server sent over the WebSocket after the Upgrade packet reached it
SentAfterUpgrade(k) == upgrade_seen.seen /\ k > upgrade_seen.frames

\* the j-th result of the unified receiver is the packet of the k-th frame
IsFrame(j, k) ==
    /\ u_out[j].tag = "Packet" /\ u_out[j].via = "websocket"
    /\ u_out[j].packet = with_str("Message", <<k>>)

\* the i-th result of the unified receiver is the n-th packet queued for polling
IsQueued(i, n) ==
    /\ u_out[i].tag = "Packet" /\ u_out[i].via = "polling"
    /\ u_out[i].packet.payload = String(<<n>>)

\* C2: a packet the server queued for polling before the upgrade is never
\* overtaken by a packet sent over the WebSocket after it: when the unified
\* receiver returns such a WebSocket packet, it has returned every such polling
\* packet before.
C2_PollingNotOvertaken ==
    \A j \in DOMAIN u_out : \A k \in 1..frames :
        (IsFrame(j, k) /\ SentAfterUpgrade(k))
            => \A n \in 1..made :
                  QueuedBeforeUpgrade(n) => \E i \in 1..(j - 1) : IsQueued(i, n)

\* the Upgrade packet has been handed to the polling sender
UpgradeSent == UpgradePost \in u_inflight
                  \/ \E i \in DOMAIN u_posted : u_posted[i] = UpgradePost.packets

\* C10: the Upgrade packet is never sent over the WebSocket; it is sent over
\* polling only after the probe has succeeded, that is after connect() is ready
\* on a Pong that reads "probe"; the slots are populated only after it has
\* reached the server; and it is not sent while the probe has failed or has not
\* completed.
C10_UpgradeAfterProbe ==
    /\ \A i \in DOMAIN ws_out : ws_out[i] # Message(empty("Upgrade"))
    /\ UpgradeSent => (connect_fut = "Ready" /\ ProbeAnswer(probe_event))
    /\ slots = "Populated" => \E i \in DOMAIN u_posted : u_posted[i] = UpgradePost.packets
    /\ connect_fut # "Ready" => (~UpgradeSent /\ slots = "Empty")

\* the probe has succeeded, Upgrade has reached the server over polling and the
\* pair is installed
C10_Witness ==
    /\ slots = "Populated"
    /\ coord = "installed"
    /\ ProbeAnswer(probe_event)
    /\ u_posted = <<UpgradePost.packets>>

\* the probe task has failed: connect() has failed (no dial, or the thread gone
\* before the pong), or the first event was not the answer to the probe
ProbeFailed ==
    \/ connect_fut = "Failed"
    \/ (probe_event.tag # "None" /\ ~ProbeAnswer(probe_event))

\* the i-th call of the unified sender is a send() that went to polling: its
\* POST is in flight, has reached the server, or has failed on its way
SentViaPolling(i) ==
    LET p == Post(i, UserPackets(i, u_calls[i].n))
    IN  \/ u_calls[i].status = "pending" /\ p \in u_inflight
        \/ u_calls[i].status = "ok" /\ \E k \in DOMAIN u_posted : u_posted[k] = p.packets
        \/ u_calls[i].status = "failed"

\* C11: a failure of the probe task is never surfaced to the user of the
\* unified connection: once the probe has failed the slots stay empty, every
\* send() accepted by the sender goes to polling and none fails as a WebSocket
\* error, nothing but the probe ping is written to the WebSocket, and every
\* result of the receiver, its last one included, comes from polling.
C11_ProbeFailureSwallowed ==
    ProbeFailed =>
        /\ slots = "Empty"
        /\ \A i \in DOMAIN u_out : u_out[i].via = "polling"
        /\ \A i \in DOMAIN ws_out : ws_out[i] = Message(with_str("Ping", HANDSHAKE_PAYLOAD))
        /\ \A i \in DOMAIN u_calls :
              /\ u_calls[i].status # "io_other"
              /\ (u_calls[i].kind = "Send" /\ u_calls[i].status # "invalid_state")
                    => SentViaPolling(i)

\* the probe has failed on an error event before the pong, and a send() and a
\* packet of the server have both gone over polling since
C11_Witness ==
    /\ connect_fut = "Failed" /\ probe_event.tag = "Error"
    /\ coord = "abandoned"
    /\ \E i \in DOMAIN u_calls : u_calls[i].kind = "Send" /\ u_calls[i].status = "ok"
    /\ \E i \in DOMAIN u_out : u_out[i].tag = "Packet" /\ u_out[i].via = "polling"
    /\ ~u_term

\* C12: the WebSocket slots (one variable, both are written in one step of the
\* probe task) change only from empty to populated, only in the installing
\* step of the probe task and only while the unified pair is alive; once
\* populated they stay populated; and they are never populated for a pair that
\* was dropped before the probe completed.
C12_SlotsWrittenOnce ==
    [][/\ slots = "Populated" => slots' = "Populated"
       /\ slots' # slots => /\ slots = "Empty" /\ slots' = "Populated"
                            /\ coord = "upgraded" /\ coord' = "installed"
                            /\ u_pair = "alive"
       /\ u_pair' = "dropped" => slots' = "Empty"]_vars

\* the slots were populated and have been read since: the receiver has returned
\* a packet of the WebSocket
C12_Witness ==
    /\ slots = "Populated"
    /\ \E i \in DOMAIN u_out : u_out[i].tag = "Packet" /\ u_out[i].via = "websocket"

\* the step is a send() that the unified sender accepts
AcceptedSend ==
    /\ Len(u_calls') = Len(u_calls) + 1
    /\ u_calls'[Len(u_calls')].kind = "Send"
    /\ u_calls'[Len(u_calls')].status # "invalid_state"

\* the frames of the n packets of call c
FramesOf(c, n) == [i \in 1..n |-> Message(UserPackets(c, n)[i])]

\* C13: every send() the unified sender accepts goes to exactly one transport,
\* chosen by the slots at the time of the call: with the slots populated every
\* packet goes to the WebSocket, in order, and no POST is made (or the send
\* fails as Io(Other) and nothing is written); with the slots empty, as they
\* are until the probe has resolved, one POST carries the packets and nothing
\* goes to the WebSocket.
C13_OneTransportPerSend ==
    [][AcceptedSend =>
          LET c == Len(u_calls')
              status == u_calls'[c].status
              n == u_calls'[c].n
          IN  /\ ~ProbeDone => slots = "Empty"
              /\ IF slots = "Populated"
                 THEN /\ u_inflight' = u_inflight
                      /\ \/ status = "ok" /\ ws_out' = ws_out \o FramesOf(c, n)
                         \/ status = "io_other" /\ ws_out' = ws_out
                 ELSE /\ ws_out' = ws_out
                      /\ status = "pending"
                      /\ u_inflight' = u_inflight \cup {Post(c, UserPackets(c, n))}
                      /\ Post(c, UserPackets(c, n)) \notin u_inflight]_vars

\* a send() of two packets was made with the slots populated: both frames are
\* on the WebSocket and Upgrade is the only POST made
C13_Witness ==
    /\ slots = "Populated"
    /\ u_calls = <<SendCall("ok", 2)>>
    /\ \E k \in DOMAIN ws_out : k > 1 /\ ws_out[k - 1] = FramesOf(1, 2)[1]
                                        /\ ws_out[k] = FramesOf(1, 2)[2]
    /\ u_inflight = {} /\ u_posted = <<UpgradePost.packets>>

\* a POST body that is the Close packet of the client
IsCloseBody(body) == body = <<empty("Close")>>

\* C15: a close made by the client transmits exactly one Close packet, and a
\* close made because the server has closed transmits nothing: the server
\* receives at most one Close packet over polling, and none once its own Close
\* packet has been passed to the callback of the transport.
C15_CloseByInitiator ==
    /\ \A i, j \in DOMAIN srv_recv :
          (IsCloseBody(srv_recv[i]) /\ IsCloseBody(srv_recv[j])) => i = j
    /\ ServerCloseSeen => \A i \in DOMAIN srv_recv : ~IsCloseBody(srv_recv[i])

\* an opcode the transport is to consume itself
InternalOpcode(opcode) == opcode \in {"Open", "Ping", "Upgrade"}

\* C14: whatever the server sends over polling, no packet with opcode Open,
\* Ping or Upgrade comes to the closure of the connection: the branch of
\* create_connection marked unreachable is never run, and no such packet is
\* passed on to the consumer.
C14_InternalOpcodesHidden ==
    /\ pc # "panicked"
    /\ \A i \in DOMAIN events :
          events[i].ev = "Message" => ~InternalOpcode(events[i].packet.opcode)
    /\ \A i \in DOMAIN delivered :
          delivered[i].ev = "Message" => ~InternalOpcode(delivered[i].packet.opcode)

\* the d-th call is a send() made while the transport is paused: a pause() was
\* made before it and no start() between the two
Buffered(d) ==
    /\ calls[d].kind = "Send"
    /\ \E c \in 1..(d - 1) :
          /\ calls[c].kind = "Pause"
          /\ \A e \in (c + 1)..(d - 1) : calls[e].kind # "Start"

\* a start() has been made after the d-th call, and the first such has completed
StartedAfter(d) == \E e \in (d + 1)..Len(calls) : calls[e].kind = "Start"

StartDoneAfter(d) ==
    \E e \in (d + 1)..Len(calls) :
        /\ calls[e].kind = "Start" /\ calls[e].status = "ok"
        /\ \A f \in (d + 1)..(e - 1) : calls[f].kind # "Start"

\* the i-th POST the server has received is the body of the d-th call
IsBodyOf(i, d) == IsUserBody(srv_recv[i]) /\ CallOf(srv_recv[i]) = d

\* C16: a send() made while the transport is paused transmits nothing before
\* start() is called; once start() has completed its batch is not dropped; it
\* reaches the server at most once; and the batches buffered during a pause
\* reach the server in the order of their send() calls.
C16_BufferedWhilePaused ==
    \A d \in DOMAIN calls :
        Buffered(d) =>
            /\ ~StartedAfter(d) => \A i \in DOMAIN srv_recv : ~IsBodyOf(i, d)
            /\ StartDoneAfter(d) => calls[d].status \in {"pending", "ok", "failed"}
            /\ \A i, j \in DOMAIN srv_recv : (IsBodyOf(i, d) /\ IsBodyOf(j, d)) => i = j
            /\ \A i \in DOMAIN srv_recv :
                  IsBodyOf(i, d) => srv_recv[i] = UserPackets(d, Len(srv_recv[i]))
            /\ \A e \in DOMAIN calls : \A i, j \in DOMAIN srv_recv :
                  (Buffered(e) /\ d < e /\ IsBodyOf(i, d) /\ IsBodyOf(j, e)) => i < j

\* a start() call has been handled by the thread of the transport
StartCompleted == \E c \in DOMAIN calls : calls[c].kind = "Start" /\ calls[c].status = "ok"

\* C17: start() restarts the transport: whenever a start() has completed and
\* the thread waits in its select! with the transport not paused and no event
\* left to handle, a GET is outstanding or its result waits in the channel, so
\* that what the server sends next is received.
C17_StartRestartsPolling ==
    (StartCompleted /\ ~is_paused /\ pc = "select" /\ ev_rx = <<>>)
        => (GetInFlight \/ pack_rx # <<>>)

\* C18: the callback of a transport made by Polling::new gets Connect as its
\* first event, as soon as the thread has started, and never again; the
\* callback of a transport made by Polling::with_cfg never gets Connect.
C18_ConnectOnce ==
    /\ ~previously_connected =>
          /\ pc # "spawned" => events # <<>>
          /\ events # <<>> => events[1].ev = "Connect"
          /\ \A i \in 2..Len(events) : events[i].ev # "Connect"
    /\ previously_connected => \A i \in DOMAIN events : events[i].ev # "Connect"
    /\ delivered = events

\* a transport made by Polling::with_cfg has passed a Message of the server and
\* then Disconnect to its callback
C18_Witness ==
    /\ previously_connected
    /\ Len(events) > 1
    /\ events[1].ev = "Message"
    /\ events[Len(events)].ev = "Disconnect"

\* the transport is present when the c-th call is made: the Connection starts
\* with one, and only disconnect and the drop of the Connection take it away
TransportPresentAt(c) == \A b \in 1..(c - 1) : calls[b].kind \notin {"disconnect", "drop"}

\* C19: Connection::disconnect yields true exactly when a transport was
\* present at the call, and false, with nothing done, when none was: the
\* future of a call made with a transport is pending or has yielded true, and
\* every later call, the one right after it included, has yielded false.
C19_DisconnectReturn ==
    \A c \in DOMAIN calls :
        calls[c].kind = "disconnect" =>
            IF TransportPresentAt(c)
            THEN calls[c].status \in {"pending", "ok"}
            ELSE calls[c].status = "false"

\* the transport made by connect call i is live: its thread runs and no Close
\* event waits for it
Live(i) == cl_polling[i].pc \in {"spawned", "running"} /\ ~cl_polling[i].close

\* the step is the start of connect call i
ConnectCalled(i) == cl_connects[i].pc = "idle" /\ cl_connects'[i].pc # "idle"

\* C20: a connect call made while the state is Connected yields false at once
\* and changes nothing else; a call yields false only then, and true only when
\* the state was not Connected at the call and the transport it made has been
\* stored; and of the transports made by calls that yielded true only the one
\* stored last stays live, the others having been closed.
C20_ConnectIfNotConnected ==
    [][/\ \A i \in 1..MaxConnects :
             ConnectCalled(i) =>
                 /\ cl_connects'[i].seen = cl_state
                 /\ IF cl_state = "Connected"
                    THEN /\ cl_connects'[i] = ConnectCall("done", "Connected", "false")
                         /\ UNCHANGED <<cl_state, cl_transport, cl_polling>>
                    ELSE cl_connects'[i].pc = "handshake"
       /\ \A i \in 1..MaxConnects :
             /\ cl_connects'[i].result = "false" => cl_connects'[i].seen = "Connected"
             /\ cl_connects'[i].result = "true" =>
                   /\ cl_connects'[i].seen # "Connected"
                   /\ cl_polling'[i].pc # "none"
             /\ (cl_connects'[i].result = "true" /\ Live(i)') => cl_transport' = i
             /\ cl_polling'[i].pc # "none" => cl_connects'[i].seen \in {"Pending", "Disconnected"}]_vars

\* two connect calls ran concurrently and both yielded true: the transport of
\* the second is stored and live, that of the first has been closed
C20_Witness ==
    /\ cl_connects[1].result = "true" /\ cl_connects[2].result = "true"
    /\ cl_connects[1].seen = "Pending" /\ cl_connects[2].seen = "Pending"
    /\ cl_transport = 2 /\ Live(2)
    /\ cl_polling[1].pc = "returned"

\* the packets of the body of the response
ResponsePackets == from_reader_all(c_body, <<>>)

\* the packets whose payload decodes from JSON into a session descriptor
Decodable(packets) ==
    {i \in DOMAIN packets : /\ packets[i].payload.kind = "String"
                            /\ decode(packets[i].payload.data).ok}

\* a response with a 2xx status whose body is a list of packets
GoodResponse == c_status \in 200..299 /\ ResponsePackets.ok

\* C21: the handshake returns the session descriptor decoded from the first
\* packet of the response that decodes into one, skipping the packets before
\* it, whenever the response holds such a packet.
C21_FirstDecodablePacket ==
    (c_ret.fn = "connect_async" /\ GoodResponse
        /\ Decodable(ResponsePackets.packets) # {})
    => LET packets == ResponsePackets.packets
           first == CHOOSE i \in Decodable(packets) : \A j \in Decodable(packets) : i <= j
       IN  c_ret.ok /\ c_ret.n = decode(packets[first].payload.data).sid

\* C22: when no packet of the response decodes into a session descriptor, also
\* when the response holds no packet, the handshake fails with an InvalidData
\* error value: it does not crash and makes no transport.
C22_NoDescriptorIsInvalidData ==
    (c_ret.fn = "connect_async" /\ GoodResponse
        /\ Decodable(ResponsePackets.packets) = {})
    => (~c_ret.ok /\ c_ret.kind = "InvalidData")

\* C23: a response whose status is not 2xx fails the operation with
\* InvalidData: a GET delivers no packet of its body, and send() does not
\* complete successfully.
C23_Non2xxFails ==
    (c_ret.fn \in {"poll", "send"} /\ c_status # 0 /\ c_status \notin 200..299)
    => (~c_ret.ok /\ c_ret.kind = "InvalidData" /\ c_ret.packets = <<>>)

\* the number of Packet entries of a sequence of events or of results
PacketCount(q) == Cardinality({i \in DOMAIN q : q[i].tag = "Packet"})

C25_PacketRoundTrip ==
    c_ret.fn = "from_reader" => (c_ret.ok /\ c_ret.packets = c_packets)

\* a packet without octets, and one with an empty string, has been written and
\* read back
C25_Witness ==
    /\ c_ret.fn = "from_reader"
    /\ c_packets[1].payload \in {Binary(<<>>), String(<<>>)}

\* what write_payload_to writes for the packets of a list, back to back
RECURSIVE Payloads(_)
Payloads(ps) ==
    IF ps = <<>> THEN <<>> ELSE write_payload_to(Head(ps)) \o Payloads(Tail(ps))

\* C26: for every list of packets, writing each with write_payload_to into one
\* buffer and reading the buffer with from_reader_all gives the same packets,
\* as many and in the same order.
C26_PayloadRoundTrip ==
    (c_ret.fn = "from_reader_all" /\ c_ret.arg = "written" /\ c_body = Payloads(c_packets))
    => (c_ret.ok /\ c_ret.packets = c_packets)

\* two different packets, a string of several bytes and octets, were written
\* and read back
C26_Witness ==
    /\ c_ret.fn = "from_reader_all" /\ c_ret.arg = "written"
    /\ c_body = Payloads(c_packets)
    /\ Len(c_packets) = 2
    /\ c_packets[1].payload = String(<<8364>>)
    /\ c_packets[2].payload.kind = "Binary" /\ Len(c_packets[2].payload.data) = 2

\* C27: in character mode compute_length is the number of characters of the
\* text of the packet: 1 + the characters of a string payload, and
\* 2 + 4 * ceil(n / 3) for n octets, n = 0, 1, 2 included.
C27_LengthInCharacters ==
    (c_ret.fn = "compute_length" /\ c_ret.arg = "chars")
    => LET p == c_packets[1]
       IN  /\ c_ret.n = Len(to_string(p))
           /\ c_ret.n = IF p.payload.kind = "String" THEN 1 + Len(p.payload.data)
                        ELSE 2 + (4 * ((Len(p.payload.data) + 2) \div 3))

\* the length of a packet of one or two octets was computed
C27_Witness ==
    /\ c_ret.fn = "compute_length" /\ c_ret.arg = "chars"
    /\ c_packets[1].payload.kind = "Binary"
    /\ Len(c_packets[1].payload.data) \in {1, 2}

\* the number of decimal digits of a length
Digits(n) == IF n < 10 THEN 1 ELSE IF n < 100 THEN 2 ELSE 3

\* C28: compute_payload_length is compute_length plus the number of its decimal
\* digits plus one, which is the length of what write_payload_to writes, for
\* every length from 1 upward.
C28_PayloadLength ==
    (c_ret.fn = "compute_payload_length" /\ c_ret.arg = "chars")
    => LET p == c_packets[1]
       IN  /\ c_ret.n = compute_length(p, TRUE) + Digits(compute_length(p, TRUE)) + 1
           /\ c_ret.n = Len(from_utf8(write_payload_to(p)).data)

\* the decimal digits of a length below 100
Decimal(n) == IF n < 10 THEN <<48 + n>> ELSE <<48 + (n \div 10), 48 + (n % 10)>>

\* C29: the length prefix written by write_payload_to counts the characters of
\* the text of the packet, not its bytes, and from_reader_payload consumes the
\* prefix and that many characters, leaving the reader at the next segment,
\* also when the string holds characters of several bytes.
C29_CharacterFraming ==
    /\ (c_ret.fn = "write_payload_to" /\ Len(c_packets) = 1)
       => c_body = Decimal(Len(to_string(c_packets[1]))) \o <<58>>
                       \o as_bytes(to_string(c_packets[1]))
    /\ (c_ret.fn = "from_reader_payload" /\ c_ret.arg = "written")
       => IF c_ret.ok
          THEN \E k \in DOMAIN c_packets :
                  /\ c_ret.packets = <<c_packets[k]>>
                  /\ c_ret.n = Len(write_payload_to(c_packets[k]))
                  /\ c_body = Payloads(SubSeq(c_packets, k + 1, Len(c_packets)))
          ELSE c_ret.kind = "UnexpectedEof" /\ c_body = <<>>

\* a packet whose string holds a character of several bytes was read, and the
\* segment of the next packet is left
C29_Witness ==
    /\ c_ret.fn = "from_reader_payload" /\ c_ret.arg = "written" /\ c_ret.ok
    /\ c_ret.packets[1].payload \in {String(<<233>>), String(<<8364>>), String(<<128512>>)}
    /\ c_body # <<>>

\* the results of from_reader_payload on a reader, up to the first error
RECURSIVE SegmentResults(_)
SegmentResults(reader) ==
    LET more(r) == IF r.res.ok THEN <<r.res>> \o SegmentResults(r.rest) ELSE <<r.res>>
    IN  more(from_reader_payload(reader))

\* C30: from_reader_all succeeds only on UnexpectedEof, returning the packets
\* read so far in order; any other error of a segment (length prefix, opcode,
\* base64, UTF-8) is returned, and no packet with it.
C30_StopsOnlyAtEof ==
    c_ret.fn = "from_reader_all"
    => LET rs == SegmentResults(c_body)
       IN  IF rs[Len(rs)].kind = "UnexpectedEof"
           THEN /\ c_ret.ok
                /\ c_ret.packets = [i \in 1..(Len(rs) - 1) |-> rs[i].packet]
           ELSE /\ ~c_ret.ok
                /\ c_ret.kind = rs[Len(rs)].kind
                /\ c_ret.packets = <<>>

\* a body whose first segment is a packet and whose second is in error was read
C30_Witness ==
    /\ c_ret.fn = "from_reader_all" /\ c_ret.arg = "response"
    /\ ~c_ret.ok /\ c_ret.kind = "InvalidData"
    /\ from_reader_payload(c_body).res.ok

\* the place of the first ':' of a reader, 0 when it has none
Colon(reader) ==
    IF \E i \in 1..Len(reader) : reader[i] = 58
    THEN CHOOSE i \in 1..Len(reader) :
            reader[i] = 58 /\ \A j \in 1..(i - 1) : reader[j] # 58
    ELSE 0

\* the bytes before the first ':' are decimal digits, at least one
HasLength(reader) ==
    /\ Colon(reader) > 1
    /\ \A i \in 1..(Colon(reader) - 1) : reader[i] \in 48..57

\* the length they declare
Declared(reader) ==
    LET N[i \in 0..(Colon(reader) - 1)] ==
            IF i = 0 THEN 0 ELSE (10 * N[i - 1]) + (reader[i] - 48)
    IN  N[Colon(reader) - 1]

\* the characters that follow the first ':'
Remaining(reader) == from_utf8(SubSeq(reader, Colon(reader) + 1, Len(reader)))

\* the declared length is larger than the number of characters that remain
Truncated(reader) ==
    /\ HasLength(reader)
    /\ Remaining(reader).ok
    /\ Len(Remaining(reader).data) < Declared(reader)

\* C31: a payload-wrapped decode of a segment whose declared length N is larger
\* than the number of characters remaining in the reader fails and yields no
\* packet; no packet is built from fewer than N characters.
C31_TruncatedSegmentFails ==
    [][(c_ret'.fn = "from_reader_payload" /\ Truncated(c_body))
           => (~c_ret'.ok /\ c_ret'.packets = <<>>)]_vars

\* C32: a payload-wrapped decode fails with UnexpectedEof whenever the reader
\* holds no ':' (empty, digits only, or any other bytes), and with InvalidData
\* when a ':' is present but the prefix before it is not a non-negative integer.
C32_PrefixErrors ==
    [][c_ret'.fn = "from_reader_payload"
           => /\ Colon(c_body) = 0 => (~c_ret'.ok /\ c_ret'.kind = "UnexpectedEof")
              /\ (Colon(c_body) > 0 /\ ~HasLength(c_body))
                    => (~c_ret'.ok /\ c_ret'.kind = "InvalidData")]_vars

\* the string handed to the decoder of one packet or of one opcode
Text == from_utf8(c_body).data

\* C33: single-packet decode of a string that begins with 'b' fails with
\* InvalidData, and yields no packet, when the opcode digit after 'b' is
\* missing or when the text after the digit is not valid base64.
C33_BinaryDecodeErrors ==
    (/\ c_ret.fn = "from_str"
     /\ Text # <<>> /\ Text[1] = 98
     /\ \/ Len(Text) < 2
        \/ Text[2] \notin 48..57
        \/ ~from_base64(as_bytes(SubSeq(Text, 3, Len(Text)))).ok)
    => (~c_ret.ok /\ c_ret.kind = "InvalidData" /\ c_ret.packets = <<>>)

\* the opcodes in the order of their values
OpCodes == <<"Open", "Close", "Ping", "Pong", "Message", "Upgrade", "Noop">>

\* a string of decimal digits, after '+' or not, that denotes v
Denotes(text, v) ==
    /\ text # <<>>
    /\ text[Len(text)] = 48 + v
    /\ \A i \in 1..(Len(text) - 1) : text[i] = 48 \/ (i = 1 /\ text[i] = 43)

\* the call returned the opcode of value v
Returned(v) == c_ret.ok /\ c_ret.packets = <<empty(OpCodes[v + 1])>>

\* the call failed with InvalidData and returned nothing
Refused == ~c_ret.ok /\ c_ret.kind = "InvalidData" /\ c_ret.packets = <<>>

\* C34: from_u8, from_char and OpCode::from_str accept exactly the values 0 to 6
\* and map them to Open, Close, Ping, Pong, Message, Upgrade, Noop in that
\* order; single-packet decode with any other opcode character, first or after
\* 'b', fails with InvalidData, and decode of the empty string with UnexpectedEof.
C34_OpcodeValidity ==
    /\ c_ret.fn = "OpCode::from_u8"
          => IF c_ret.n \in 0..6 THEN Returned(c_ret.n) ELSE Refused
    /\ c_ret.fn = "OpCode::from_char"
          => IF c_ret.n \in 48..54 THEN Returned(c_ret.n - 48) ELSE Refused
    /\ (c_ret.fn = "OpCode::from_str" /\ Text # <<>>)
          => IF \E v \in 0..6 : Denotes(Text, v)
             THEN \A v \in 0..6 : Denotes(Text, v) => Returned(v)
             ELSE Refused
    /\ c_ret.fn = "from_str"
          => /\ Text = <<>> => (~c_ret.ok /\ c_ret.kind = "UnexpectedEof")
             /\ (Text # <<>> /\ Text[1] \in 48..54)
                   => (c_ret.ok /\ c_ret.packets[1].opcode = OpCodes[Text[1] - 47])
             /\ (Text # <<>> /\ Text[1] \notin 48..54 /\ Text[1] # 98) => Refused
             /\ (Len(Text) > 1 /\ Text[1] = 98 /\ Text[2] \notin 48..54) => Refused
             /\ (Len(Text) > 1 /\ Text[1] = 98 /\ Text[2] \in 48..54 /\ c_ret.ok)
                   => c_ret.packets[1].opcode = OpCodes[Text[2] - 47]

\* the decoder of one packet has refused the opcode 7 after 'b'
C34_Witness ==
    /\ c_ret.fn = "from_str" /\ Text = <<98, 55>>
    /\ ~c_ret.ok /\ c_ret.kind = "InvalidData"

\* the steps of the future of connect(): from WaitForSender to WaitForHandshake
\* or to a failure, from WaitForHandshake to the pair or to a failure, and none
\* once it has completed
ProbeStep ==
    /\ connect_fut = "WaitForSender"
          => connect_fut' \in {"WaitForSender", "WaitForHandshake", "Failed"}
    /\ connect_fut = "WaitForHandshake"
          => connect_fut' \in {"WaitForHandshake", "Ready", "Failed"}
    /\ ProbeDone => connect_fut' = connect_fut

\* C35: the probe completes exactly once: from dialing it reaches the wait for
\* the probe response and then Ready or Failed, it makes no transition once
\* Ready or Failed, and it eventually leaves every non-terminal state, also
\* when the server accepts the WebSocket but never answers the probe ping.
C35_ProbeCompletesOnce == [][ProbeStep]_vars /\ <>ProbeDone

\* transport i has replaced transport j, has delivered its Connect event and
\* is the one stored, and the state is Connected
Replaced(j, i) ==
    /\ cl_polling[j].by = i /\ cl_transport = i
    /\ cl_polling[i].pc = "running" /\ ~cl_polling[i].close
    /\ cl_state = "Connected"

\* C36: once connect has replaced a transport by a new one and the new one has
\* delivered Connect, the state stays Connected while the new one is live: the
\* Disconnect event of the old transport, closed by the replacement, does not
\* leave the state at Disconnected.
C36_OldDisconnectIgnored ==
    [][\A i, j \in 1..MaxConnects :
          (Replaced(j, i) /\ cl_polling'[j].pc # cl_polling[j].pc)
             => cl_state' = "Connected"]_vars

\* the caller of disconnect holds the mutex of the Connection and waits, in the
\* drop of the transport, for the thread to finish closing
AwaitingClose == conn_lock # 0 /\ calls[conn_lock].status = "pending"

\* a step of the thread of the transport
ThreadStep ==
    \/ handle_polling_connect
    \/ handle_polling_poll
    \/ handle_polling_Close
    \/ handle_polling_Send
    \/ handle_polling_packets
    \/ handle_polling_error

\* C37: Connection::disconnect is deadlock-free, also when a user callback
\* invoked for the resulting Disconnect event calls state(), config() or send()
\* on the same connection: while the caller waits for the thread to finish
\* closing, the thread can take a step.
C37_DisconnectDeadlockFree == AwaitingClose => ENABLED ThreadStep

\* the number of elements of a sequence that satisfy a test
Count(seq, Test(_)) == Cardinality({i \in DOMAIN seq : Test(seq[i])})

IsClosePost(body) == body = <<empty("Close")>>

IsDisconnect(e) == e.ev = "Disconnect"

\* at most one Close packet has been posted and at most one Disconnect event
\* has been passed to the callback
ClosedOnce == Count(srv_recv, IsClosePost) <= 1 /\ Count(events, IsDisconnect) <= 1

\* C38: for one polling transport at most one Close packet is posted and at
\* most one Disconnect event is delivered, however many times close() is
\* called (explicitly, or by the drop), and no future of close() resolves
\* with an error, also when the thread has already exited.
C38_CloseOnceAndResolves ==
    /\ ClosedOnce
    /\ \A c \in DOMAIN calls :
          calls[c].kind \in {"Close", "drop"} => calls[c].status \in {"pending", "ok"}

IsPoll(j) == j.kind = "poll"

IsError(e) == e.ev = "Error"

\* the GETs in flight: queued for a worker of the pool, or running on one
GetsInFlight == Count(jobs, IsPoll) + Cardinality({j \in running : IsPoll(j)})

\* the step issues a GET
GetIssued == Count(jobs', IsPoll) > Count(jobs, IsPoll)

Handled == events'[Len(events')]

\* C40: state() is Pending from creation until the first event; it becomes
\* Connected only when a Connect event is handled and Disconnected only when a
\* Disconnect event, an Error event or a Close packet is handled; a
\* ConnectError event, a Noop packet and a Message or Pong packet leave it
\* unchanged; it never returns to Pending.
C40_StateMachine ==
    /\ [](events = <<>> => state = "Pending")
    /\ [][/\ state' # state => Len(events') = Len(events) + 1
          /\ (state' # state /\ state' = "Connected") => Handled.ev = "Connect"
          /\ (state' # state /\ state' = "Disconnected")
                => \/ Handled.ev \in {"Disconnect", "Error"}
                   \/ Handled.ev = "Message" /\ Handled.packet.opcode = "Close"
          /\ (/\ Len(events') = Len(events) + 1
              /\ \/ Handled.ev = "ConnectError"
                 \/ /\ Handled.ev = "Message"
                    /\ Handled.packet.opcode \in {"Noop", "Message", "Pong"})
                => state' = state
          /\ state # "Pending" => state' # "Pending"]_vars

\* a connected Connection has handled a ConnectError event, a Pong packet and
\* a Noop packet
C40_Witness ==
    /\ state = "Connected" /\ Len(events) = 3
    /\ events[1].ev = "Connect" /\ events[2].ev = "ConnectError"
    /\ events[3].ev = "Message" /\ events[3].packet.opcode = "Pong"

====
